---- MODULE Spec2Model ----
(***************************************************************************)
(* A model of zalo/TetSim: the sequential XPBD soft body (Softbody.js),    *)
(* the data-parallel soft body (SoftbodyGPU.js), the frame loop of         *)
(* main.js and the ping-pong compute renderer.                             *)
(*                                                                         *)
(* Arithmetic.  The program computes in IEEE floating point.  The model    *)
(* computes in exact extended rationals: a number is a pair <<n, d>> in    *)
(* lowest terms with d > 0, and the three IEEE specials are <<1, 0>>       *)
(* (+Infinity), <<-1, 0>> (-Infinity) and <<0, 0>> (NaN).  Rounding and    *)
(* the sign of zero are not modelled (1/0 is +Infinity).                   *)
(***************************************************************************)
EXTENDS Integers, Sequences, FiniteSets, TLC

VARIABLES
    phase,          \* position of the modelled run (which call has completed)
    input,          \* constructor arguments: vertices, tetIds, density
    physicsParams,  \* the shared physicsParams object of main.js
    body,           \* the fields of a SoftBody (Softbody.js)
    gpu,            \* the fields of a SoftBodyGPU (SoftbodyGPU.js)
    main,           \* Main.update: loop position and the calls made this frame
    obs             \* observations taken by the last completed call

vars == <<phase, input, physicsParams, body, gpu, main, obs>>

-----------------------------------------------------------------------------
(* Extended rational numbers                                               *)

Abs(x) == IF x < 0 THEN -x ELSE x

Sgn(x) == IF x < 0 THEN -1 ELSE IF x > 0 THEN 1 ELSE 0

RECURSIVE GCD(_, _)
GCD(a, b) ==
    IF b = 0 THEN a
    ELSE LET r == a % b
         IN  IF r = 0 THEN b ELSE GCD(r, b % r)

Norm(n, d) ==
    IF d = 0 THEN <<Sgn(n), 0>>
    ELSE LET g == GCD(Abs(n), Abs(d))
             s == IF d < 0 THEN -1 ELSE 1
         IN  <<(s * n) \div g, (s * d) \div g>>

R(n) == <<n, 1>>
Q(n, d) == Norm(n, d)
Zero == <<0, 1>>
One == <<1, 1>>
NaN == <<0, 0>>
PosInf == <<1, 0>>
NegInf == <<-1, 0>>

IsNaN(a) == a = NaN
IsFinite(a) == a[2] # 0

Neg(a) == <<-a[1], a[2]>>

\* Sums and products cancel common factors before multiplying.
Add(a, b) ==
    IF a[2] = 0 /\ b[2] = 0 THEN (IF a = b THEN a ELSE NaN)
    ELSE IF a[2] = 0 THEN a
    ELSE IF b[2] = 0 THEN b
    ELSE LET g == GCD(a[2], b[2])
         IN  Norm(a[1] * (b[2] \div g) + b[1] * (a[2] \div g), (a[2] \div g) * b[2])

Sub(a, b) == Add(a, Neg(b))

Mul(a, b) ==
    IF a[2] = 0 \/ b[2] = 0 THEN Norm(Sgn(a[1]) * Sgn(b[1]), 0)
    ELSE LET g1 == GCD(Abs(a[1]), b[2])
             g2 == GCD(Abs(b[1]), a[2])
         IN  <<(a[1] \div g1) * (b[1] \div g2), (a[2] \div g2) * (b[2] \div g1)>>

\* 1.0 / a
Inv(a) == Norm(a[2], a[1])

\* a / b
Div(a, b) == Mul(a, Inv(b))

\* a < b  (false when either is NaN)
Lt(a, b) ==
    /\ ~IsNaN(a)
    /\ ~IsNaN(b)
    /\ IF a[2] = 0 \/ b[2] = 0 THEN a[1] * b[2] < b[1] * a[2] \/ (a[2] = b[2] /\ a[1] < b[1])
       ELSE Sub(a, b)[1] < 0

\* a == b  (false when either is NaN)
Eq(a, b) == ~IsNaN(a) /\ a = b

Le(a, b) == Lt(a, b) \/ Eq(a, b)

\* Math.max / Math.min: NaN if either argument is NaN
MathMax(a, b) == IF IsNaN(a) \/ IsNaN(b) THEN NaN ELSE IF Lt(a, b) THEN b ELSE a
MathMin(a, b) == IF IsNaN(a) \/ IsNaN(b) THEN NaN ELSE IF Lt(b, a) THEN b ELSE a

AbsQ(a) == <<Abs(a[1]), a[2]>>

-----------------------------------------------------------------------------
(* Typed arrays: 0-based; a read outside the array is undefined (NaN in    *)
(* arithmetic), a write outside the array is ignored.                      *)

Float32Array(n) == [i \in 0 .. n - 1 |-> Zero]

Len0(a) == Cardinality(DOMAIN a)

Rd(a, i) == IF i \in DOMAIN a THEN a[i] ELSE NaN

Wr(a, i, v) == IF i \in DOMAIN a THEN [a EXCEPT ![i] = v] ELSE a

\* array literals: [x, y, ...] of numbers, and of integers taken as numbers
Arr(s) == [i \in 0 .. Len(s) - 1 |-> s[i + 1]]
ArrQ(s) == [i \in 0 .. Len(s) - 1 |-> R(s[i + 1])]

\* Statement sequencing: e is computed first, the rest then runs on its value.
Then(e, Rest(_)) == CHOOSE r \in {Rest(x) : x \in {e}} : TRUE

\* three consecutive writes a[i] = x; a[i+1] = y; a[i+2] = z
Wr3(a, i, x, y, z) ==
    IF {i, i + 1, i + 2} \subseteq DOMAIN a
    THEN [a EXCEPT ![i] = x, ![i + 1] = y, ![i + 2] = z]
    ELSE Wr(Wr(Wr(a, i, x), i + 1, y), i + 2, z)

-----------------------------------------------------------------------------
(* Softbody.js: vector math (each returns the updated destination array)   *)

vecSetZero(a, anr) == Wr3(a, 3 * anr, Zero, Zero, Zero)

vecCopy(a, anr, b, bnr) ==
    Wr3(a, 3 * anr, Rd(b, 3 * bnr), Rd(b, 3 * bnr + 1), Rd(b, 3 * bnr + 2))

vecAdd(a, anr, b, bnr, scale) ==
    LET x == 3 * anr
        y == 3 * bnr
    IN  Wr3(a, x, Add(Rd(a, x), Mul(Rd(b, y), scale)),
                  Add(Rd(a, x + 1), Mul(Rd(b, y + 1), scale)),
                  Add(Rd(a, x + 2), Mul(Rd(b, y + 2), scale)))

vecSetDiff(dst, dnr, a, anr, b, bnr, scale) ==
    LET x == 3 * anr
        y == 3 * bnr
    IN  Wr3(dst, 3 * dnr, Mul(Sub(Rd(a, x), Rd(b, y)), scale),
                          Mul(Sub(Rd(a, x + 1), Rd(b, y + 1)), scale),
                          Mul(Sub(Rd(a, x + 2), Rd(b, y + 2)), scale))

vecLengthSquared(a, anr) ==
    LET a0 == Rd(a, 3 * anr)
        a1 == Rd(a, 3 * anr + 1)
        a2 == Rd(a, 3 * anr + 2)
    IN  Add(Add(Mul(a0, a0), Mul(a1, a1)), Mul(a2, a2))

vecDistSquared(a, anr, b, bnr) ==
    LET a0 == Sub(Rd(a, 3 * anr), Rd(b, 3 * bnr))
        a1 == Sub(Rd(a, 3 * anr + 1), Rd(b, 3 * bnr + 1))
        a2 == Sub(Rd(a, 3 * anr + 2), Rd(b, 3 * bnr + 2))
    IN  Add(Add(Mul(a0, a0), Mul(a1, a1)), Mul(a2, a2))

\* a = b x c
vecSetCross(a, anr, b, bnr, c, cnr) ==
    LET y == 3 * bnr
        z == 3 * cnr
    IN  Wr3(a, 3 * anr,
            Sub(Mul(Rd(b, y + 1), Rd(c, z + 2)), Mul(Rd(b, y + 2), Rd(c, z + 1))),
            Sub(Mul(Rd(b, y + 2), Rd(c, z)), Mul(Rd(b, y), Rd(c, z + 2))),
            Sub(Mul(Rd(b, y), Rd(c, z + 1)), Mul(Rd(b, y + 1), Rd(c, z))))

vecSetClamped(dst, dnr, a, anr, b, bnr) ==
    LET d == 3 * dnr
        x == 3 * anr
        y == 3 * bnr
    IN  Wr3(dst, d,
            MathMax(Rd(a, x), MathMin(Rd(b, y), Rd(dst, d))),
            MathMax(Rd(a, x + 1), MathMin(Rd(b, y + 1), Rd(dst, d + 1))),
            MathMax(Rd(a, x + 2), MathMin(Rd(b, y + 2), Rd(dst, d + 2))))

-----------------------------------------------------------------------------
(* Softbody.js: matrix math (column-major 3x3 blocks of a flat array)      *)

matIJ(A, anr, row, col) == Rd(A, 9 * anr + 3 * col + row)

\* dst = 0; dst += A.col0 * b0; dst += A.col1 * b1; dst += A.col2 * b2
\* (vecSetZero and three vecAdd on columns 3 anr .. 3 anr + 2 of A), written
\* per component in the same order of additions.
matSetVecProduct(dst, dnr, A, anr, b, bnr) ==
    LET b0 == Rd(b, 3 * bnr)
        b1 == Rd(b, 3 * bnr + 1)
        b2 == Rd(b, 3 * bnr + 2)
        a0 == 3 * anr
        S(r) == Add(Add(Add(Zero, Mul(Rd(A, 3 * a0 + r), b0)),
                        Mul(Rd(A, 3 * (a0 + 1) + r), b1)),
                    Mul(Rd(A, 3 * (a0 + 2) + r), b2))
    IN  Wr3(dst, 3 * dnr, S(0), S(1), S(2))

matSetMatProduct(Dst, dnr, A, anr, B, bnr) ==
    LET d == 3 * dnr
        b == 3 * bnr
    IN  matSetVecProduct(
            matSetVecProduct(
                matSetVecProduct(Dst, d, A, anr, B, b),
                d + 1, A, anr, B, b + 1),
            d + 2, A, anr, B, b + 2)

matGetDeterminant(A, anrIn) ==
    LET anr == 9 * anrIn
        a11 == Rd(A, anr)      a12 == Rd(A, anr + 3)  a13 == Rd(A, anr + 6)
        a21 == Rd(A, anr + 1)  a22 == Rd(A, anr + 4)  a23 == Rd(A, anr + 7)
        a31 == Rd(A, anr + 2)  a32 == Rd(A, anr + 5)  a33 == Rd(A, anr + 8)
        M3(x, y, z) == Mul(Mul(x, y), z)
    IN  Sub(Sub(Sub(Add(Add(M3(a11, a22, a33), M3(a12, a23, a31)),
                        M3(a13, a21, a32)),
                    M3(a13, a22, a31)),
                M3(a12, a21, a33)),
            M3(a11, a23, a32))

RECURSIVE ZeroFrom(_, _, _)
ZeroFrom(A, from, n) ==
    IF n = 0 THEN A ELSE ZeroFrom(Wr(A, from, Zero), from + 1, n - 1)

\* On det == 0 the nine entries A[anr .. anr+8] are zeroed with anr still the
\* matrix number (the multiplication by 9 comes after the early return).
matSetInverse(A, anrIn) ==
    LET det == matGetDeterminant(A, anrIn)
    IN  IF Eq(det, Zero) THEN ZeroFrom(A, anrIn, 9)
        ELSE
        LET invDet == Inv(det)
            anr == 9 * anrIn
            a11 == Rd(A, anr)      a12 == Rd(A, anr + 3)  a13 == Rd(A, anr + 6)
            a21 == Rd(A, anr + 1)  a22 == Rd(A, anr + 4)  a23 == Rd(A, anr + 7)
            a31 == Rd(A, anr + 2)  a32 == Rd(A, anr + 5)  a33 == Rd(A, anr + 8)
            Co(p, q, r, s) == Sub(Mul(p, q), Mul(r, s))
            c0 == Mul(Co(a22, a33, a23, a32), invDet)
            c3 == Mul(Neg(Co(a12, a33, a13, a32)), invDet)
            c6 == Mul(Co(a12, a23, a13, a22), invDet)
            c1 == Mul(Neg(Co(a21, a33, a23, a31)), invDet)
            c4 == Mul(Co(a11, a33, a13, a31), invDet)
            c7 == Mul(Neg(Co(a11, a23, a13, a21)), invDet)
            c2 == Mul(Co(a21, a32, a22, a31), invDet)
            c5 == Mul(Neg(Co(a11, a32, a12, a31)), invDet)
            c8 == Mul(Co(a11, a22, a12, a21), invDet)
        IN  Wr3(Wr3(Wr3(A, anr, c0, c1, c2), anr + 3, c3, c4, c5),
                anr + 6, c6, c7, c8)

-----------------------------------------------------------------------------
(* Softbody.js: SoftBody construction                                      *)

\* one iteration of the element loop of initPhysics
initPhysicsElem(b, i, density) ==
    LET id0 == b.tetIds[4 * i]
        id1 == b.tetIds[4 * i + 1]
        id2 == b.tetIds[4 * i + 2]
        id3 == b.tetIds[4 * i + 3]
    IN
    Then(vecSetDiff(b.invRestPose, 3 * i, b.pos, id1, b.pos, id0, One), LAMBDA e1 :
    Then(vecSetDiff(e1, 3 * i + 1, b.pos, id2, b.pos, id0, One), LAMBDA e2 :
    Then(vecSetDiff(e2, 3 * i + 2, b.pos, id3, b.pos, id0, One), LAMBDA e3 :
    Then(Div(matGetDeterminant(e3, i), R(6)), LAMBDA V :
    Then(matSetInverse(e3, i), LAMBDA irp :
    Then(Mul(Div(V, R(4)), density), LAMBDA pm :
    LET m0 == Wr(b.invMass, id0, Add(Rd(b.invMass, id0), pm))
        m1 == Wr(m0, id1, Add(Rd(m0, id1), pm))
        m2 == Wr(m1, id2, Add(Rd(m1, id2), pm))
        m3 == Wr(m2, id3, Add(Rd(m2, id3), pm))
    IN  [b EXCEPT !.invRestPose = irp,
                  !.invMass = m3,
                  !.invRestVolume = Wr(b.invRestVolume, i, Inv(V))]))))))

RECURSIVE initPhysicsElems(_, _, _)
initPhysicsElems(b, i, density) ==
    IF i >= b.numElems THEN b
    ELSE initPhysicsElems(initPhysicsElem(b, i, density), i + 1, density)

invertMass(m) == IF ~Eq(m, Zero) THEN Inv(m) ELSE m

initPhysics(b, density) ==
    LET z == [b EXCEPT !.invMass = [i \in DOMAIN b.invMass |-> Zero]]
        e == initPhysicsElems(z, 0, density)
    IN  [e EXCEPT !.invMass = [i \in DOMAIN e.invMass |-> invertMass(e.invMass[i])]]

\* new SoftBody(vertices, tetIds, tetEdgeIds, physicsParams, ...).  edgeMesh is
\* the position attribute of the edge mesh; the embedded visual mesh is taken
\* without vertices (visVerts empty).
SoftBody(vertices, tetIds, pp) ==
    LET np == Len0(vertices) \div 3
        ne == Len0(tetIds) \div 4
        fresh == [numParticles |-> np,
                  numElems |-> ne,
                  pos |-> vertices,
                  accumOne |-> Float32Array(12),
                  accum |-> Float32Array(3 * np),
                  accumWeight |-> Float32Array(np),
                  prevPos |-> vertices,
                  vel |-> Float32Array(3 * np),
                  invMass |-> Float32Array(np),
                  invRestPose |-> Float32Array(9 * ne),
                  invRestVolume |-> Float32Array(ne),
                  tetIds |-> tetIds,
                  volError |-> Zero,
                  grabPos |-> Float32Array(3),
                  grabId |-> -1,
                  edgeMesh |-> vertices]
    IN  initPhysics(fresh, pp.density)

-----------------------------------------------------------------------------
(* MultiTargetGPUComputationRenderer.js / SoftbodyGPU.js: construction     *)

\* Math.ceil(Math.sqrt(n))
CeilSqrt(n) == CHOOSE k \in 0 .. n : k * k >= n /\ (k = 0 \/ (k - 1) * (k - 1) < n)

\* createTexture(): new Float32Array(sizeX * sizeY * 4)
createTexture(sizeX, sizeY) == Float32Array(sizeX * sizeY * 4)

NumTables == 9

\* pos0.image.data[i .. i+2] = inputPos[posIndex++], for i = 0, 4, 8, ...
\* (a read past the end of inputPos stores NaN)
fillPos0(tex, inputPos) ==
    [i \in DOMAIN tex |->
        IF i % 4 = 3 THEN tex[i] ELSE Rd(inputPos, 3 * (i \div 4) + (i % 4))]

\* The first slot (table t, component c), in scan order, whose value is <= 0.0.
freeSlots(tables, p) ==
    {s \in 0 .. 4 * NumTables - 1 : Le(Rd(tables[s \div 4], 4 * p + (s % 4)), Zero)}

assignSlot(tables, p, value) ==
    LET free == freeSlots(tables, p)
    IN  IF free = {} THEN tables
        ELSE LET s == CHOOSE x \in free : \A y \in free : x <= y
             IN  [tables EXCEPT ![s \div 4] = Wr(@, 4 * p + (s % 4), value)]

RECURSIVE assignCorners(_, _, _, _)
assignCorners(tables, tetIds, i, id) ==
    IF id >= 4 THEN tables
    ELSE assignCorners(assignSlot(tables, tetIds[4 * i + id], R(4 * i + id)),
                       tetIds, i, id + 1)

\* The rest-pose and mass part of the element loop, shared in text by both
\* definitions of SoftBodyGPU.initPhysics.
gpuElemRest(g, i, density) ==
    LET id0 == g.tetIds[4 * i]
        id1 == g.tetIds[4 * i + 1]
        id2 == g.tetIds[4 * i + 2]
        id3 == g.tetIds[4 * i + 3]
        fwd == Wr(Wr(Wr(Wr(g.elemToParticlesTable, 4 * i, R(id0)),
                        4 * i + 1, R(id1)), 4 * i + 2, R(id2)), 4 * i + 3, R(id3))
    IN
    Then(vecSetDiff(g.oldInvRestPose, 3 * i, g.inputPos, id1, g.inputPos, id0, One), LAMBDA e1 :
    Then(vecSetDiff(e1, 3 * i + 1, g.inputPos, id2, g.inputPos, id0, One), LAMBDA e2 :
    Then(vecSetDiff(e2, 3 * i + 2, g.inputPos, id3, g.inputPos, id0, One), LAMBDA e3 :
    Then(Div(matGetDeterminant(e3, i), R(6)), LAMBDA V :
    Then(matSetInverse(e3, i), LAMBDA irp :
    Then(Mul(Div(V, R(4)), density), LAMBDA pm :
    LET m0 == Wr(g.invMass, 4 * id0, Add(Rd(g.invMass, 4 * id0), pm))
        m1 == Wr(m0, 4 * id1, Add(Rd(m0, 4 * id1), pm))
        m2 == Wr(m1, 4 * id2, Add(Rd(m1, 4 * id2), pm))
        m3 == Wr(m2, 4 * id3, Add(Rd(m2, 4 * id3), pm))
    IN  [g EXCEPT
            !.elemToParticlesTable = fwd,
            !.oldInvRestPose = irp,
            !.invRestPoseX = Wr3(@, 4 * i, Rd(irp, 9 * i), Rd(irp, 9 * i + 1), Rd(irp, 9 * i + 2)),
            !.invRestPoseY = Wr3(@, 4 * i, Rd(irp, 9 * i + 3), Rd(irp, 9 * i + 4), Rd(irp, 9 * i + 5)),
            !.invRestPoseZ = Wr3(@, 4 * i, Rd(irp, 9 * i + 6), Rd(irp, 9 * i + 7), Rd(irp, 9 * i + 8)),
            !.invMass = m3,
            !.invRestVolume = Wr(@, 4 * i, Inv(V))]))))))

\* ---- first definition of SoftBodyGPU (SoftbodyGPU.js lines 4-562)

RECURSIVE initPhysicsElemsGPU1(_, _, _)
initPhysicsElemsGPU1(g, i, density) ==
    IF i >= g.numElems THEN g
    ELSE initPhysicsElemsGPU1(gpuElemRest(g, i, density), i + 1, density)

\* The closing loop inverts this.invMass[i], an own property of the texture
\* object, not this.invMass.image.data[i]: the texture data keep the masses.
initPhysicsGPU1(g, density) ==
    LET n == Len0(g.inputPos)
        z == [g EXCEPT
                !.vel0 = [i \in DOMAIN @ |-> IF i < n THEN Zero ELSE @[i]],
                !.invMass = [i \in DOMAIN @ |-> IF i < n THEN Zero ELSE @[i]],
                !.pos0 = fillPos0(@, g.inputPos)]
        e == initPhysicsElemsGPU1(z, 0, density)
    IN  [e EXCEPT !.invMassOwn = [i \in DOMAIN e.invMass |-> invertMass(NaN)]]

gpuFresh(vertices, tetIds, texDim) ==
    [numParticles |-> Len0(vertices) \div 3,
     numElems |-> Len0(tetIds) \div 4,
     texDim |-> texDim,
     inputPos |-> vertices,
     tetIds |-> tetIds,
     pos0 |-> createTexture(texDim, texDim),
     vel0 |-> createTexture(texDim, texDim),
     invMass |-> createTexture(texDim, texDim),
     invMassOwn |-> << >>,
     invRestVolume |-> createTexture(texDim, texDim),
     invRestPoseX |-> createTexture(texDim, texDim),
     invRestPoseY |-> createTexture(texDim, texDim),
     invRestPoseZ |-> createTexture(texDim, texDim),
     elemToParticlesTable |-> createTexture(texDim, texDim),
     particleToElemVertsTable |-> [t \in 0 .. NumTables - 1 |-> createTexture(texDim, texDim)],
     oldInvRestPose |-> Float32Array(9 * (Len0(tetIds) \div 4)),
     grabPos |-> Float32Array(3),
     grabId |-> -1]

SoftBodyGPU1(vertices, tetIds, pp) ==
    initPhysicsGPU1(gpuFresh(vertices, tetIds, CeilSqrt(Len0(vertices) \div 3)), pp.density)

\* ---- second definition of SoftBodyGPU (SoftbodyGPU.js lines 644-1373)

RECURSIVE initPhysicsElemsGPU(_, _, _)
initPhysicsElemsGPU(g, i, density) ==
    IF i >= g.numElems THEN g
    ELSE
    LET t == [g EXCEPT !.particleToElemVertsTable =
                          assignCorners(@, g.tetIds, i, 0)]
        r == gpuElemRest(t, i, density)
        c == [r EXCEPT !.invRestVolume = Wr(@, 4 * i + 1, R(-1))]
    IN  initPhysicsElemsGPU(c, i + 1, density)

initPhysicsGPU(g, density) ==
    LET z == [g EXCEPT
                !.vel0 = [i \in DOMAIN @ |-> Zero],
                !.invMass = [i \in DOMAIN @ |-> Zero],
                !.particleToElemVertsTable =
                    [t \in DOMAIN @ |-> [i \in DOMAIN @[t] |-> R(-1)]],
                !.pos0 = fillPos0(@, g.inputPos)]
        e == initPhysicsElemsGPU(z, 0, density)
    IN  [e EXCEPT !.invMass = [i \in DOMAIN @ |-> invertMass(@[i])]]

SoftBodyGPU(vertices, tetIds, pp) ==
    initPhysicsGPU(gpuFresh(vertices, tetIds, CeilSqrt(Len0(tetIds) \div 4)), pp.density)

\* applyElemPass main(): the encoded slots the gather reads for the texel of
\* particle p, in reading order.  Tables 0..7 are scanned; within a table the
\* scan stops at the first component that is not > 0.0.
RECURSIVE gatherComponents(_, _, _, _)
gatherComponents(tex, p, component, acc) ==
    IF component >= 4 THEN acc
    ELSE IF Lt(Zero, Rd(tex, 4 * p + component))
         THEN gatherComponents(tex, p, component + 1,
                               Append(acc, Rd(tex, 4 * p + component)[1]))
         ELSE acc

GatherTables == 8

\* particleToElemVertsTableSample(index, uv): the second `index == 7` branch
\* can never be taken, so every index above 7 samples table 0.
particleToElemVertsTableSample(tables, index) ==
    IF index \in 1 .. 7 THEN tables[index] ELSE tables[0]

RECURSIVE gatherReads(_, _, _, _)
gatherReads(tables, p, tableId, acc) ==
    IF tableId >= GatherTables THEN acc
    ELSE gatherReads(tables, p, tableId + 1,
            gatherComponents(particleToElemVertsTableSample(tables, tableId), p, 0, acc))

\* applyElemPass main(): sumVertex.w, 1.0 added for every slot read
RECURSIVE gatherWeight(_, _)
gatherWeight(reads, w) ==
    IF reads = << >> THEN w ELSE gatherWeight(Tail(reads), Add(w, One))

-----------------------------------------------------------------------------
(* main.js: the physicsParams object (deferredConstructor)                 *)

DefaultParams ==
    [gravity |-> Q(-981, 100),
     timeScale |-> One,
     timeStep |-> Q(1, 60),
     numSubsteps |-> 5,
     dt |-> Q(1, 300),
     friction |-> R(1000),
     density |-> R(1000),
     devCompliance |-> Q(1, 100000),
     volCompliance |-> Zero,
     worldBounds |-> <<Q(-5, 2), R(-1), Q(-5, 2), Q(5, 2), R(10), Q(5, 2)>>]

\* worldBounds as the 0-based array the solver indexes
BoundsArray(pp) == [i \in 0 .. 5 |-> pp.worldBounds[i + 1]]

-----------------------------------------------------------------------------
(* Softbody.js: the solver                                                 *)

\* g[k] = 0; g[k] += V_0 * ir(k-1, 0); g[k] += V_1 * ir(k-1, 1);
\* g[k] += V_2 * ir(k-1, 2): one vecSetZero/vecAdd group of solveElem, written
\* per component in the same order of additions, and the three groups (V is
\* F for the deviatoric part, dF for the volume part).
gradOne(g, k, V, ir, elemNr) ==
    LET S(r) == Add(Add(Add(Zero, Mul(Rd(V, r), matIJ(ir, elemNr, k - 1, 0))),
                        Mul(Rd(V, 3 + r), matIJ(ir, elemNr, k - 1, 1))),
                    Mul(Rd(V, 6 + r), matIJ(ir, elemNr, k - 1, 2)))
    IN  Wr3(g, 3 * k, S(0), S(1), S(2))

elemGrads(V, ir, elemNr) ==
    gradOne(gradOne(gradOne(Float32Array(12), 1, V, ir, elemNr), 2, V, ir, elemNr),
            3, V, ir, elemNr)

\* the second loop of applyToElem with the element's correction also added to
\* the position of its last corner at once
RECURSIVE applyCornersImmediate(_, _, _, _, _, _)
applyCornersImmediate(b, g, elemNr, dlambda, addToAccum, i) ==
    IF i >= 4 THEN b
    ELSE
    LET id == b.tetIds[4 * elemNr + i]
        one == vecAdd(b.accumOne, i, g, i, Mul(dlambda, Rd(b.invMass, id)))
        b1 == [b EXCEPT !.accumOne = one]
        b2 == IF addToAccum
              THEN [b1 EXCEPT !.accum = vecAdd(@, id, one, i, One),
                              !.accumWeight = Wr(@, id, Add(Rd(@, id), One)),
                              !.pos = IF i = 3 THEN vecAdd(@, id, one, i, One) ELSE @]
              ELSE b1
    IN  Then(b2, LAMBDA n : applyCornersImmediate(n, g, elemNr, dlambda, addToAccum, i + 1))

\* the second loop of applyToElem
RECURSIVE applyCorners(_, _, _, _, _, _)
applyCorners(b, g, elemNr, dlambda, addToAccum, i) ==
    IF i >= 4 THEN b
    ELSE
    LET id == b.tetIds[4 * elemNr + i]
        one == vecAdd(b.accumOne, i, g, i, Mul(dlambda, Rd(b.invMass, id)))
        b1 == [b EXCEPT !.accumOne = one]
        b2 == IF addToAccum
              THEN [b1 EXCEPT !.accum = vecAdd(@, id, one, i, One),
                              !.accumWeight = Wr(@, id, Add(Rd(@, id), One))]
              ELSE b1
    IN  Then(b2, LAMBDA n : applyCorners(n, g, elemNr, dlambda, addToAccum, i + 1))

\* applyToElem, lines 191-194: g[0] = -g[1] - g[2] - g[3]
gradsWithFirst(g123) ==
    vecAdd(vecAdd(vecAdd(vecSetZero(g123, 0), 0, g123, 1, R(-1)), 0, g123, 2, R(-1)),
           0, g123, 3, R(-1))

\* applyToElem, lines 196-200: w, the generalized inverse mass
genInvMass(b, g, elemNr) ==
    LET term(i) == Mul(vecLengthSquared(g, i), Rd(b.invMass, b.tetIds[4 * elemNr + i]))
    IN  Add(Add(Add(Add(Zero, term(0)), term(1)), term(2)), term(3))

\* applyToElem without the test of w
applyToElemUnguarded(b, g123, elemNr, C, compliance, dt, addToAccum) ==
    IF Eq(C, Zero) THEN b
    ELSE
    Then(gradsWithFirst(g123), LAMBDA g :
    LET w == genInvMass(b, g, elemNr)
        alpha == Mul(Div(Div(compliance, dt), dt), Rd(b.invRestVolume, elemNr))
    IN
    Then(Div(Neg(C), Add(w, alpha)), LAMBDA dlambda :
    applyCorners(b, g, elemNr, dlambda, addToAccum, 0)))

\* applyToElem(elemNr, C, compliance, dt, addToAccum); g123 is this.grads with
\* g[1..3] set by the caller.
applyToElem(b, g123, elemNr, C, compliance, dt, addToAccum) ==
    IF Eq(C, Zero) THEN b
    ELSE
    Then(gradsWithFirst(g123), LAMBDA g :
    LET w == genInvMass(b, g, elemNr)
        alpha == Mul(Div(Div(compliance, dt), dt), Rd(b.invRestVolume, elemNr))
    IN
    IF Eq(w, Zero) THEN b
    ELSE
    Then(Div(Neg(C), Add(w, alpha)), LAMBDA dlambda :
    applyCorners(b, g, elemNr, dlambda, addToAccum, 0)))

\* the GLSL applyToElem (second SoftBodyGPU, solveElemPass): id holds the four
\* corner positions, invMass the four inverse masses, g123 the global g with
\* g[1..3] set by solveElement; the result is id.
applyToElemGLSL(C, compliance, dt, invRestVolume, id, invMass, g123) ==
    IF Eq(C, Zero) THEN id
    ELSE
    LET g == gradsWithFirst(g123)
        term(i) == Mul(vecLengthSquared(g, i), Rd(invMass, i))
        w == Add(Add(Add(Add(Zero, term(0)), term(1)), term(2)), term(3))
        alpha == Mul(Div(Div(compliance, dt), dt), invRestVolume)
        dlambda == Div(Neg(C), Add(w, alpha))
        corner(a, i) == vecAdd(a, i, g, i, Mul(dlambda, Rd(invMass, i)))
    IN  IF Eq(w, Zero) THEN id
        ELSE corner(corner(corner(corner(id, 0), 1), 2), 3)

\* the shader of copyPrevPosPass for one texel: texturePrevPos = texturePos
copyPrevPosGLSL(pos) == [k \in 0 .. 2 |-> pos[k]]

\* the shader of xpbdIntegratePass for one texel: pos + vel * dt
integrateGLSL(pos, vel, dt) == [k \in 0 .. 2 |-> Add(pos[k], Mul(vel[k], dt))]

\* the shader of xpbdVelocityPass for one texel:
\* (pos - prevPos) / dt + vec3(0, gravity, 0) * dt
velocityGLSL(pos, prevPos, dt, gravity) ==
    [k \in 0 .. 2 |-> Add(Div(Sub(pos[k], prevPos[k]), dt),
                          Mul(IF k = 1 THEN gravity ELSE Zero, dt))]

\* the uniforms of the passes: numbers copied from this.physicsParams when
\* the passes are created
Uniforms(own) == [dt |-> own.dt, friction |-> own.friction, gravity |-> own.gravity]

\* the shader of collisionPass (second SoftBodyGPU) for one texel: the xyz
\* written for a particle at pos with previous position prevPos
collisionGLSL(pos, prevPos, dt, friction) ==
    LET lo == ArrQ(<<0, 0, 0>>)
        wb == Arr(<<Q(-5, 2), R(-1), Q(-5, 2), Q(5, 2), R(10), Q(5, 2)>>)
        c == vecSetClamped(pos, 0, wb, 0, wb, 1)
    IN  IF Lt(Rd(c, 1), Zero)
        THEN LET p0 == Wr(c, 1, Zero)
                 F == vecSetDiff(lo, 0, prevPos, 0, p0, 0, One)
                 k == MathMin(One, Mul(dt, friction))
             IN  Wr(Wr(p0, 0, Add(p0[0], Mul(F[0], k))), 2, Add(p0[2], Mul(F[2], k)))
        ELSE c

\* solveElem(elemNr, dt), lines 95-137: the deviatoric part.  The constraint
\* is C = r_s = sqrt(r2) with gradients F * ir / r_s.  The square root is not
\* rational, so the applyToElem call is made in the equivalent form scaled by
\* r_s: constraint value r2, gradients F * ir and compliance
\* devCompliance * r2.  For finite r2 this tests the same conditions
\* (r_s == 0 iff r2 == 0, w == 0 iff r2 * w == 0) and writes the same accumOne:
\*   (F ir / r_s) * (-r_s / (w + alpha)) = (F ir) * (-r2 / (r2 w + r2 alpha)).
\* own is this.physicsParams, the object given to the constructor.
solveElemDev(b, elemNr, dt, own) ==
    LET ir == b.invRestPose
        id0 == b.tetIds[4 * elemNr]
        id1 == b.tetIds[4 * elemNr + 1]
        id2 == b.tetIds[4 * elemNr + 2]
        id3 == b.tetIds[4 * elemNr + 3]
        b0 == [b EXCEPT !.accumOne = [i \in DOMAIN @ |-> Zero]]
    IN
    Then(vecSetDiff(vecSetDiff(vecSetDiff(Float32Array(9), 0, b.pos, id1, b.pos, id0, One),
                               1, b.pos, id2, b.pos, id0, One),
                    2, b.pos, id3, b.pos, id0, One), LAMBDA P :
    Then(matSetMatProduct(Float32Array(9), 0, P, 0, ir, elemNr), LAMBDA F :
    LET r2 == Add(Add(vecLengthSquared(F, 0), vecLengthSquared(F, 1)),
                  vecLengthSquared(F, 2))
    IN  applyToElem(b0, elemGrads(F, ir, elemNr), elemNr, r2,
                    Mul(own.devCompliance, r2), dt, FALSE)))

\* solveElem(elemNr, dt), lines 139-184: the volume part, on pos + accumOne
solveElemVol(b1, elemNr, dt, own) ==
    LET ir == b1.invRestPose
        id0 == b1.tetIds[4 * elemNr]
        id1 == b1.tetIds[4 * elemNr + 1]
        id2 == b1.tetIds[4 * elemNr + 2]
        id3 == b1.tetIds[4 * elemNr + 3]
        New(id, k) == vecAdd(vecAdd(Float32Array(3), 0, b1.pos, id, One),
                             0, b1.accumOne, k, One)
        newid0 == New(id0, 0)
        newid1 == New(id1, 1)
        newid2 == New(id2, 2)
        newid3 == New(id3, 3)
    IN
    Then(vecSetDiff(vecSetDiff(vecSetDiff(Float32Array(9), 0, newid1, 0, newid0, 0, One),
                               1, newid2, 0, newid0, 0, One),
                    2, newid3, 0, newid0, 0, One), LAMBDA P :
    Then(matSetMatProduct(Float32Array(9), 0, P, 0, ir, elemNr), LAMBDA F :
    Then(vecSetCross(vecSetCross(vecSetCross(Float32Array(9), 0, F, 1, F, 2),
                                 1, F, 2, F, 0),
                     2, F, 0, F, 1), LAMBDA dF :
    LET vol == matGetDeterminant(F, 0)
        C == Sub(Sub(vol, One), Div(own.volCompliance, own.devCompliance))
        b2 == [b1 EXCEPT !.volError = Add(@, Sub(vol, One))]
    IN  applyToElem(b2, elemGrads(dF, ir, elemNr), elemNr, C, own.volCompliance, dt, TRUE))))

solveElem(b, elemNr, dt, own) ==
    Then(solveElemDev(b, elemNr, dt, own), LAMBDA b1 : solveElemVol(b1, elemNr, dt, own))

\* simulate, lines 223-227: XPBD prediction
RECURSIVE predict(_, _, _, _)
predict(b, i, dt, pp) ==
    IF i >= b.numParticles THEN b
    ELSE
    LET vel == vecAdd(b.vel, i, Arr(<<Zero, pp.gravity, Zero>>), 0, dt)
        prevPos == vecCopy(b.prevPos, i, b.pos, i)
        pos == vecAdd(b.pos, i, vel, i, dt)
    IN  Then([b EXCEPT !.vel = vel, !.prevPos = prevPos, !.pos = pos],
             LAMBDA n : predict(n, i + 1, dt, pp))

\* simulate, lines 230-233
clearAccum(b) ==
    [b EXCEPT !.accumWeight = [i \in DOMAIN @ |-> Zero],
              !.accum = [i \in DOMAIN @ |-> Zero],
              !.volError = Zero]

\* the element loop with the accumulators cleared before every element
RECURSIVE solveElemsClearing(_, _, _, _)
solveElemsClearing(b, i, dt, own) ==
    IF i >= b.numElems THEN b
    ELSE Then(solveElem(clearAccum(b), i, dt, own),
              LAMBDA n : solveElemsClearing(n, i + 1, dt, own))

RECURSIVE solveElems(_, _, _, _)
solveElems(b, i, dt, own) ==
    IF i >= b.numElems THEN b
    ELSE Then(solveElem(b, i, dt, own), LAMBDA n : solveElems(n, i + 1, dt, own))

\* simulate, lines 230-236: clear the accumulators, solve every element
solve(b, dt, own) ==
    Then(solveElems(clearAccum(b), 0, dt, own),
         LAMBDA s : [s EXCEPT !.volError = Div(@, R(s.numElems))])

\* the body as the element at position 1 of the loop finds it: predicted,
\* accumulators cleared, solveElem(0, dt) done
afterFirstElem(b, dt, own, pp) ==
    LET p == clearAccum(predict(b, 0, dt, pp))
    IN  IF p.numElems > 0 THEN solveElem(p, 0, dt, own) ELSE p

\* simulate, lines 238-240: pos += accum * (1.0 / accumWeight)
RECURSIVE applyAccum(_, _)
applyAccum(b, i) ==
    IF i >= b.numParticles THEN b
    ELSE Then([b EXCEPT !.pos = vecAdd(@, i, b.accum, i, Inv(Rd(b.accumWeight, i)))],
              LAMBDA n : applyAccum(n, i + 1))

\* simulate, lines 246-260: one particle of the ground collision loop
collideOne(b, i, dt, pp) ==
    LET wb == BoundsArray(pp)
        c == vecSetClamped(b.pos, i, wb, 0, wb, 1)
    IN  IF Lt(Rd(c, 3 * i + 1), Zero)
        THEN LET p0 == Wr(c, 3 * i + 1, Zero)
                 F == vecSetDiff(Float32Array(9), 0, b.prevPos, i, p0, i, One)
                 k == MathMin(One, Mul(dt, pp.friction))
                 p1 == Wr(p0, 3 * i, Add(Rd(p0, 3 * i), Mul(F[0], k)))
             IN  [b EXCEPT !.pos = Wr(p1, 3 * i + 2, Add(Rd(p1, 3 * i + 2), Mul(F[2], k)))]
        ELSE [b EXCEPT !.pos = c]

RECURSIVE collide(_, _, _, _)
collide(b, i, dt, pp) ==
    IF i >= b.numParticles THEN b
    ELSE Then(collideOne(b, i, dt, pp), LAMBDA n : collide(n, i + 1, dt, pp))

\* simulate, lines 264-266
grabOverride(b) ==
    IF b.grabId >= 0 THEN [b EXCEPT !.pos = vecCopy(@, b.grabId, b.grabPos, 0)] ELSE b

\* simulate, lines 269-270: the loop runs to pos.length; writes past the end
\* of vel are ignored
RECURSIVE velocityUpdate(_, _, _)
velocityUpdate(b, i, dt) ==
    IF i >= Len0(b.pos) THEN b
    ELSE Then([b EXCEPT !.vel = vecSetDiff(@, i, b.pos, i, b.prevPos, i, Inv(dt))],
              LAMBDA n : velocityUpdate(n, i + 1, dt))

\* the body after the prediction, and after the accumulated corrections
predicted(b, dt, pp) == predict(b, 0, dt, pp)
corrected(b, own, dt, pp) ==
    Then(predicted(b, dt, pp), LAMBDA p :
    Then(solve(p, dt, own), LAMBDA s : applyAccum(s, 0)))

\* simulate with the grab override moved in front of the ground collision
simulateGrabBeforeCollision(b, own, dt, pp) ==
    Then(corrected(b, own, dt, pp), LAMBDA a :
    Then(grabOverride(a), LAMBDA g :
    Then(collide(g, 0, dt, pp), LAMBDA c : velocityUpdate(c, 0, dt))))

\* simulate(dt, physicsParams)
simulate(b, own, dt, pp) ==
    Then(corrected(b, own, dt, pp), LAMBDA a :
    Then(collide(a, 0, dt, pp), LAMBDA c :
    Then(grabOverride(c), LAMBDA g : velocityUpdate(g, 0, dt))))

\* updateEdgeMesh with the copy reversed: pos[i] = positions[i]
endFrameReversedCopy(b) ==
    [b EXCEPT !.pos = [i \in DOMAIN @ |-> IF i < Len0(b.edgeMesh) THEN b.edgeMesh[i] ELSE @[i]]]

\* endFrame(): updateEdgeMesh copies pos into the edge mesh positions
endFrame(b) ==
    [b EXCEPT !.edgeMesh = [i \in DOMAIN @ |-> IF i < Len0(b.pos) THEN b.pos[i] ELSE @[i]]]

\* Number.MAX_VALUE: above every finite number of the model, and neither
\* Infinity nor NaN is below it
MAX_VALUE == PosInf

\* the nearest-particle loop with d2 <= minD2: the last of equidistant
\* particles wins
RECURSIVE nearestLastTie(_, _, _, _, _)
nearestLastTie(b, p, i, minD2, grabId) ==
    IF i >= b.numParticles THEN grabId
    ELSE LET d2 == vecDistSquared(p, 0, b.pos, i)
         IN  IF Le(d2, minD2) THEN nearestLastTie(b, p, i + 1, d2, i)
             ELSE nearestLastTie(b, p, i + 1, minD2, grabId)

RECURSIVE nearest(_, _, _, _, _)
nearest(b, p, i, minD2, grabId) ==
    IF i >= b.numParticles THEN grabId
    ELSE LET d2 == vecDistSquared(p, 0, b.pos, i)
         IN  IF Lt(d2, minD2) THEN nearest(b, p, i + 1, d2, i)
             ELSE nearest(b, p, i + 1, minD2, grabId)

\* startGrab that also pins the grabbed particle (inverse mass 0)
startGrabPinning(b, p) ==
    LET id == nearest(b, p, 0, MAX_VALUE, -1)
    IN  [b EXCEPT !.grabId = id, !.grabPos = vecCopy(@, 0, p, 0),
                  !.invMass = Wr(@, id, Zero)]

startGrab(b, p) ==
    [b EXCEPT !.grabId = nearest(b, p, 0, MAX_VALUE, -1),
              !.grabPos = vecCopy(@, 0, p, 0)]

moveGrabbed(b, p) == [b EXCEPT !.grabPos = vecCopy(@, 0, p, 0)]

\* endGrab that leaves grabId as it is
endGrabKeepsId(b) == b

endGrab(b) == [b EXCEPT !.grabId = -1]

-----------------------------------------------------------------------------
(* Input meshes                                                            *)

MaxFan == 38

\* The fourth and fifth vertex of the two-element meshes; (1,1,0) and (2,0,0)
\* lie in the plane of the first three vertices (degenerate elements).
V3Set == {<<0, 0, 1>>, <<0, 0, 2>>, <<1, 1, 0>>}
V4Set == {<<0, 0, -1>>, <<1, 1, 1>>, <<2, 0, 0>>}
TetLists == {<<0, 1, 2, 3>>,
             <<0, 1, 2, 3, 0, 2, 1, 4>>,
             <<0, 1, 2, 3, 0, 1, 2, 4>>,
             <<0, 2, 1, 4, 0, 1, 2, 3>>}
Densities == {R(1), R(1000)}

\* k elements on the four vertices of the unit tetrahedron, element e listing
\* them in the e-th even permutation, so that every vertex takes every corner.
FanPerm(e) ==
    CASE e % 4 = 0 -> <<0, 1, 2, 3>>
      [] e % 4 = 1 -> <<1, 0, 3, 2>>
      [] e % 4 = 2 -> <<2, 3, 0, 1>>
      [] e % 4 = 3 -> <<3, 2, 1, 0>>

FanTets(k) == [i \in 0 .. 4 * k - 1 |-> FanPerm(i \div 4)[(i % 4) + 1]]

UnitTet == ArrQ(<<0, 0, 0, 1, 0, 0, 0, 1, 0, 0, 0, 1>>)

Inputs ==
    {[vertices |-> ArrQ(<<0, 0, 0, 1, 0, 0, 0, 1, 0>> \o v3 \o v4),
      tetIds |-> Arr(t), density |-> d] :
        v3 \in V3Set, v4 \in V4Set, t \in TetLists, d \in Densities}
    \cup
    {[vertices |-> UnitTet, tetIds |-> FanTets(k), density |-> d] :
        k \in 1 .. MaxFan, d \in Densities}

NoBody == [numParticles |-> 0]
NoGpu == [numParticles |-> 0]
NoInput == [density |-> Zero]
MainIdle == [pc |-> "idle"]
NoObs == [op |-> "none"]

-----------------------------------------------------------------------------
(* Construction: new SoftBody(...) / new SoftBodyGPU(...)                  *)

InitCtor ==
    /\ phase = "input"
    /\ input \in Inputs
    /\ physicsParams = [DefaultParams EXCEPT !.density = input.density]
    /\ body = NoBody
    /\ gpu = NoGpu
    /\ main = MainIdle
    /\ obs = NoObs

ConstructCPU ==
    /\ phase = "input"
    /\ body' = SoftBody(input.vertices, input.tetIds, physicsParams)
    /\ phase' = "cpu"
    /\ UNCHANGED <<input, physicsParams, gpu, main, obs>>

ConstructGPU1 ==
    /\ phase = "input"
    /\ gpu' = SoftBodyGPU1(input.vertices, input.tetIds, physicsParams)
    /\ phase' = "gpu1"
    /\ UNCHANGED <<input, physicsParams, body, main, obs>>

ConstructGPU ==
    /\ phase = "input"
    /\ gpu' = SoftBodyGPU(input.vertices, input.tetIds, physicsParams)
    /\ phase' = "gpu"
    /\ UNCHANGED <<input, physicsParams, body, main, obs>>

NextCtor == ConstructCPU \/ ConstructGPU1 \/ ConstructGPU

SpecCtor == InitCtor /\ [][NextCtor]_vars

-----------------------------------------------------------------------------
(* Construction claims                                                     *)

InNumElems == Len0(input.tetIds) \div 4
InNumParticles == Len0(input.vertices) \div 3

\* determinant of the rest edge matrix of element e of the input mesh
RestDet(e) ==
    LET id0 == input.tetIds[4 * e]
        m1 == vecSetDiff(Float32Array(9), 0, input.vertices, input.tetIds[4 * e + 1],
                         input.vertices, id0, One)
        m2 == vecSetDiff(m1, 1, input.vertices, input.tetIds[4 * e + 2],
                         input.vertices, id0, One)
        m3 == vecSetDiff(m2, 2, input.vertices, input.tetIds[4 * e + 3],
                         input.vertices, id0, One)
    IN  matGetDeterminant(m3, 0)

\* the (element, corner) incidences of particle p, encoded 4e + c
Incidences(p) == {s \in 0 .. 4 * InNumElems - 1 : input.tetIds[s] = p}

RECURSIVE SumMass(_)
SumMass(S) ==
    IF S = {} THEN Zero
    ELSE LET s == CHOOSE x \in S : TRUE
         IN  Add(Mul(Div(Div(RestDet(s \div 4), R(6)), R(4)), input.density),
                 SumMass(S \ {s}))

AllFinite(a) == \A i \in DOMAIN a : IsFinite(a[i])

\* C1: construction leaves no element with zero rest determinant, nor an
\* infinite or NaN inverse rest volume or inverse rest pose entry (the
\* constructors never throw, so every construction completes normally).
C1_DegenerateRejected ==
    /\ phase = "cpu" =>
          /\ \A e \in 0 .. body.numElems - 1 : ~Eq(RestDet(e), Zero)
          /\ AllFinite(body.invRestVolume)
          /\ AllFinite(body.invRestPose)
    /\ phase = "gpu" =>
          /\ \A e \in 0 .. gpu.numElems - 1 : ~Eq(RestDet(e), Zero)
          /\ AllFinite(gpu.invRestVolume)
          /\ AllFinite(gpu.oldInvRestPose)

MassOK(stored, mass) ==
    /\ Lt(Zero, stored) => Inv(stored) = mass
    /\ Eq(mass, Zero) => Eq(stored, Zero)

\* C7: after construction, for every particle with stored inverse mass > 0,
\* 1 / invMass is the sum over its incidences of restVolume / 4 * density, and
\* a particle of accumulated mass 0 keeps inverse mass 0; for SoftBody and
\* for both definitions of SoftBodyGPU.
C7_MassAccumulation ==
    /\ phase = "cpu" =>
          \A p \in 0 .. body.numParticles - 1 :
              MassOK(body.invMass[p], SumMass(Incidences(p)))
    /\ phase \in {"gpu1", "gpu"} =>
          \A p \in 0 .. gpu.numParticles - 1 :
              4 * p \in DOMAIN gpu.invMass =>
                  MassOK(gpu.invMass[4 * p], SumMass(Incidences(p)))

HasTexel(p) == p < gpu.texDim * gpu.texDim

SeqToSet(q) == {q[i] : i \in 1 .. Len(q)}
CountIn(q, v) == Cardinality({i \in 1 .. Len(q) : q[i] = v})

GatherOf(p) == gatherReads(gpu.particleToElemVertsTable, p, 0, << >>)

StoredOf(p) ==
    {gpu.particleToElemVertsTable[s \div 4][4 * p + (s % 4)][1] : s \in 0 .. 4 * NumTables - 1}
        \ {-1}

\* C8: on a mesh whose particles are each in at most 32 elements, the gather
\* reads for every particle exactly its (element, corner) incidences, each
\* once, element 0 corner 0 included.
C8_GatherSlotsExact ==
    phase = "gpu" /\ (\A p \in 0 .. gpu.numParticles - 1 : Cardinality(Incidences(p)) <= 32) =>
        \A p \in 0 .. gpu.numParticles - 1 :
            HasTexel(p) =>
                /\ SeqToSet(GatherOf(p)) = Incidences(p)
                /\ \A v \in Incidences(p) : CountIn(GatherOf(p), v) = 1

\* C9: every incidence of a particle is stored at construction and read by
\* the gather, however many elements share the particle.  (The slot encoded
\* 0, element 0 corner 0, is left out: its loss is C8's.)
C9_NoConnectivityCap ==
    phase = "gpu" =>
        \A p \in 0 .. gpu.numParticles - 1 :
            HasTexel(p) =>
                /\ Incidences(p) \ {0} \subseteq StoredOf(p)
                /\ Incidences(p) \ {0} \subseteq SeqToSet(GatherOf(p))

-----------------------------------------------------------------------------
(* main.js: Main.update, one soft body in physicsScene.softBodies, driving *)
(* the sequential SoftBody; pointer events arrive between frames           *)

\* line 132: dt = (timeScale * timeStep) / numSubsteps
frameDt(pp) == Div(Mul(pp.timeScale, pp.timeStep), R(pp.numSubsteps))

\* the loop test off by one: step <= numSubsteps
loopContinuesInclusive(step, pp) == step <= pp.numSubsteps

\* line 133: step < this.physicsParams.numSubsteps
loopContinues(step, pp) == step < pp.numSubsteps

MaxMag == 1000

\* Every position and velocity is small enough for the next solver call, or
\* the distances of the next startGrab, to be computed in 32-bit integers
\* (NaN and the infinities are).
Small(b) ==
    \A i \in DOMAIN b.pos :
        /\ Abs(b.pos[i][1]) <= MaxMag /\ b.pos[i][2] <= MaxMag
        /\ Abs(b.vel[i][1]) <= MaxMag /\ b.vel[i][2] <= MaxMag

Snapshot(b) == [pos |-> b.pos, prevPos |-> b.prevPos, vel |-> b.vel]

LiftedTet == ArrQ(<<0, 1, 0, 1, 1, 0, 0, 2, 0, 0, 1, 1>>)
\* two tetrahedra on either side of the face of particles 0, 1, 2
TwoTets == ArrQ(<<0, 1, 0, 1, 1, 0, 0, 2, 0, 0, 1, 1, 0, 1, -1>>)
FreeAt == <<Zero, Q(1, 2), Zero>>

\* a free particle; a tetrahedron above the floor; one standing on the floor;
\* a tetrahedron and a free particle; two tetrahedra sharing a face
SimInputs ==
    {[vertices |-> Arr(FreeAt), tetIds |-> Arr(<< >>), density |-> DefaultParams.density],
     [vertices |-> TwoTets, tetIds |-> Arr(<<0, 1, 2, 3, 0, 2, 1, 4>>),
      density |-> DefaultParams.density],
     [vertices |-> LiftedTet, tetIds |-> Arr(<<0, 1, 2, 3>>), density |-> DefaultParams.density],
     [vertices |-> UnitTet, tetIds |-> Arr(<<0, 1, 2, 3>>), density |-> DefaultParams.density],
     [vertices |-> Arr(<<Zero, One, Zero, One, One, Zero, Zero, R(2), Zero, Zero, One, One>>
                       \o FreeAt),
      tetIds |-> Arr(<<0, 1, 2, 3>>), density |-> DefaultParams.density]}

\* values of the GUI-controlled parameters (numSubsteps 0 is not offered by
\* the GUI; it is set on the object directly)
Gravities == {DefaultParams.gravity, Zero, Q(-49, 5)}
TimeScales == {One, Q(3, 2), R(2)}
Substeps == {0, 1, 2}

\* points handed to startGrab / moveGrabbed; the second lies outside the
\* world bounds and below the floor
GrabPoints == {ArrQ(<<0, 1, 0>>), ArrQ(<<3, -2, 1>>), ArrQ(<<1, 2, 1>>)}

\* Meshes of one element are stepped at dt = 1/60 only, the mesh of two
\* elements at dt = 1/40 without gravity only: there every intermediate of
\* the element solve fits 32-bit integers.
Computable(in, pp) ==
    \/ Len0(in.tetIds) = 0
    \/ pp.numSubsteps = 0
    \/ Len0(in.tetIds) = 4 /\ frameDt(pp) = DefaultParams.timeStep
    \/ Len0(in.tetIds) = 8 /\ frameDt(pp) = Q(1, 40) /\ pp.gravity = Zero

\* the blocks of size entries of a per-element array in reverse order
reversedBlocks(a, size) ==
    LET n == Len0(a) \div size
    IN  [k \in 0 .. size * n - 1 |-> a[size * (n - 1 - (k \div size)) + (k % size)]]

\* the body with its elements listed in reverse order: the quadruples of
\* tetIds and the rest data of the elements
reversedElems(b) ==
    [b EXCEPT !.tetIds = reversedBlocks(@, 4),
              !.invRestPose = reversedBlocks(@, 9),
              !.invRestVolume = reversedBlocks(@, 1)]

InitSim ==
    /\ phase = "cpu"
    /\ input \in SimInputs
    /\ physicsParams \in {[DefaultParams EXCEPT !.gravity = g, !.timeScale = ts,
                                                !.numSubsteps = n] :
                              g \in Gravities, ts \in TimeScales, n \in Substeps}
    /\ Computable(input, physicsParams)
    /\ body = SoftBody(input.vertices, input.tetIds, physicsParams)
    /\ gpu = NoGpu
    /\ main = [pc |-> "idle", step |-> 0, dt |-> Zero, log |-> << >>,
               atStart |-> Snapshot(body), quiet |-> Snapshot(body),
               target |-> Float32Array(3), active |-> FALSE, ended |-> FALSE,
               simulated |-> FALSE, disturbed |-> FALSE]
    /\ obs = NoObs

\* update(), lines 129-133: compute dt and enter the substep loop
UpdateBegin ==
    /\ main.pc = "idle"
    /\ main' = [main EXCEPT !.pc = IF loopContinues(0, physicsParams)
                                   THEN "simulate" ELSE "endFrame",
                            !.step = 0,
                            !.dt = frameDt(physicsParams),
                            !.log = << >>,
                            !.atStart = Snapshot(body)]
    /\ obs' = [op |-> "update", pre |-> Snapshot(body)]
    /\ UNCHANGED <<phase, input, physicsParams, body, gpu>>

\* update(), lines 133-137: softBodies[0].simulate(dt, this.physicsParams)
UpdateSimulate ==
    /\ main.pc = "simulate"
    /\ Small(body)
    /\ body' = simulate(body, physicsParams, main.dt, physicsParams)
    /\ obs' = [op |-> "simulate", pre |-> Snapshot(body),
               predicted |-> predicted(body, main.dt, physicsParams).pos,
               corrected |-> corrected(body, physicsParams, main.dt, physicsParams).pos,
               collided |-> collide(corrected(body, physicsParams, main.dt, physicsParams),
                                    0, main.dt, physicsParams).pos,
               first |-> afterFirstElem(body, main.dt, physicsParams, physicsParams),
               reversed |-> Snapshot(simulate(reversedElems(body),
                                              physicsParams, main.dt, physicsParams))]
    /\ main' = [main EXCEPT !.pc = IF loopContinues(main.step + 1, physicsParams)
                                   THEN "simulate" ELSE "endFrame",
                            !.step = @ + 1,
                            !.log = Append(@, [call |-> "simulate", dt |-> main.dt,
                                               params |-> physicsParams]),
                            !.quiet = Snapshot(body'),
                            !.simulated = TRUE,
                            !.disturbed = @ \/ body.grabId >= 0]
    /\ UNCHANGED <<phase, input, physicsParams, gpu>>

\* update(), lines 140-142: softBodies[0].endFrame()
UpdateEndFrame ==
    /\ main.pc = "endFrame"
    /\ body' = endFrame(body)
    /\ obs' = [op |-> "endFrame", pre |-> Snapshot(body)]
    /\ main' = [main EXCEPT !.pc = "idle", !.log = Append(@, [call |-> "endFrame"])]
    /\ UNCHANGED <<phase, input, physicsParams, gpu>>

\* Grabber.start: the ray hits the body; startGrab(hit), active = true
StartGrab ==
    /\ main.pc = "idle"
    /\ Small(body)
    /\ \E p \in GrabPoints : /\ body' = startGrab(body, p)
                              /\ main' = [main EXCEPT !.target = p, !.active = TRUE,
                                                      !.ended = FALSE]
    /\ obs' = [op |-> "startGrab", pre |-> Snapshot(body)]
    /\ UNCHANGED <<phase, input, physicsParams, gpu>>

\* Grabber.move: if (this.active) moveGrabbed(hit)
MoveGrabbed ==
    /\ main.pc = "idle"
    /\ main.active
    /\ \E p \in GrabPoints : /\ body' = moveGrabbed(body, p)
                              /\ main' = [main EXCEPT !.target = p]
    /\ obs' = [op |-> "moveGrabbed", pre |-> Snapshot(body), was |-> body]
    /\ UNCHANGED <<phase, input, physicsParams, gpu>>

\* Grabber.end: if (this.active) endGrab(), active = false
EndGrab ==
    /\ main.pc = "idle"
    /\ main.active
    /\ body' = endGrab(body)
    /\ main' = [main EXCEPT !.active = FALSE, !.ended = TRUE]
    /\ obs' = [op |-> "endGrab", pre |-> Snapshot(body)]
    /\ UNCHANGED <<phase, input, physicsParams, gpu>>

NextSim ==
    \/ UpdateBegin
    \/ UpdateSimulate
    \/ UpdateEndFrame
    \/ StartGrab
    \/ MoveGrabbed
    \/ EndGrab

SpecSim == InitSim /\ [][NextSim]_vars

-----------------------------------------------------------------------------
(* Claims about simulate, the grab operations and the frame loop           *)

Particles == 0 .. body.numParticles - 1
OutsideTarget == ArrQ(<<3, -2, 1>>)
Tolerance == Q(1, 1000)
SimulateCall == [call |-> "simulate", dt |-> frameDt(physicsParams), params |-> physicsParams]
EndFrameCall == [call |-> "endFrame"]

\* C2: after the accumulate-and-divide step of a substep, a particle that
\* received no constraint contribution (total weight zero) is still at its
\* predicted position, and that position is a finite number.
C2_UntouchedKeepsPrediction ==
    obs.op = "simulate" =>
        \A p \in Particles :
            body.accumWeight[p] = Zero =>
                \A k \in 0 .. 2 : /\ IsFinite(obs.corrected[3 * p + k])
                                  /\ obs.corrected[3 * p + k] = obs.predicted[3 * p + k]

\* C3: while a particle is grabbed, after every simulate call its position
\* equals the target last given to startGrab or moveGrabbed, also for a
\* target outside the world bounds or below the floor.
C3_GrabbedAtTarget ==
    obs.op = "simulate" /\ body.grabId >= 0 =>
        \A k \in 0 .. 2 : body.pos[3 * body.grabId + k] = main.target[k]

C3_Witness ==
    /\ obs.op = "simulate"
    /\ body.grabId >= 0
    /\ body.numElems = 1
    /\ main.target = OutsideTarget
    /\ \A k \in 0 .. 2 : body.pos[3 * body.grabId + k] = OutsideTarget[k]

\* C4: after every simulate call every particle other than the grabbed one
\* has a y-position that is a number >= 0; a free particle whose predicted y
\* is negative ends the substep at y = 0 exactly.
C4_AboveFloor ==
    obs.op = "simulate" =>
        \A i \in Particles :
            i # body.grabId =>
                /\ ~IsNaN(body.pos[3 * i + 1])
                /\ Le(Zero, body.pos[3 * i + 1])
                /\ (body.numElems = 0 /\ Lt(obs.predicted[3 * i + 1], Zero)
                        => body.pos[3 * i + 1] = Zero)

\* C5: one non-degenerate tetrahedron at its rest shape, zero velocity,
\* gravity 0 and the default compliances stays within tolerance of its
\* initial positions, and finite, after any number N >= 1 of simulate calls.
C5_RestEquilibrium ==
    /\ main.simulated /\ ~main.disturbed
    /\ physicsParams.gravity = Zero
    /\ body.numElems = 1 /\ body.numParticles = 4
    => \A i \in DOMAIN body.pos :
           /\ IsFinite(body.pos[i])
           /\ Le(AbsQ(Sub(body.pos[i], input.vertices[i])), Tolerance)

\* C6: a frame makes exactly numSubsteps simulate(dt, physicsParams) calls,
\* all with dt = timeScale * timeStep / numSubsteps, then exactly one
\* endFrame call; no endFrame precedes a simulate call of the frame.
C6_SubstepsThenEndFrame ==
    /\ Len(main.log) <= physicsParams.numSubsteps + 1
    /\ \A j \in 1 .. Len(main.log) :
           main.log[j] = IF j <= physicsParams.numSubsteps THEN SimulateCall ELSE EndFrameCall
    /\ (main.pc = "idle" /\ main.log # << >>
            => Len(main.log) = physicsParams.numSubsteps + 1)
    /\ (main.pc = "endFrame" => Len(main.log) = physicsParams.numSubsteps)

C6_Witness ==
    /\ main.pc = "idle"
    /\ physicsParams.numSubsteps = 2
    /\ main.log = <<SimulateCall, SimulateCall, EndFrameCall>>

\* C10: a frame with numSubsteps = 0, and every startGrab, moveGrabbed,
\* endGrab and endFrame call, leaves every position, previous position and
\* velocity as it was: they change in simulate calls only.
C10_NoSimulateNoMotion ==
    /\ Snapshot(body) = main.quiet
    /\ (obs.op \in {"update", "endFrame", "startGrab", "moveGrabbed", "endGrab"}
            => Snapshot(body) = obs.pre)
    /\ (physicsParams.numSubsteps = 0 => Snapshot(body) = main.atStart)

C10_Witness ==
    /\ physicsParams.numSubsteps = 0
    /\ main.pc = "idle"
    /\ main.log = <<EndFrameCall>>
    /\ body.grabId >= 0
    /\ Snapshot(body) = main.atStart

\* squared Euclidean distance of the last grab point to particle i
GrabDist2(i) == vecDistSquared(main.target, 0, body.pos, i)
FinitePos(i) == \A k \in 0 .. 2 : IsFinite(body.pos[3 * i + k])

\* C11: startGrab(point) grabs a particle at minimal Euclidean distance from
\* point, the lowest index among equidistant ones, and stores point as the
\* target; with at least one particle at a finite position grabId is in
\* 0 .. numParticles - 1.
C11_StartGrabNearest ==
    obs.op = "startGrab" =>
        /\ \A k \in 0 .. 2 : body.grabPos[k] = main.target[k]
        /\ body.grabId \in Particles \cup {-1}
        /\ ((\E i \in Particles : FinitePos(i)) => body.grabId \in Particles)
        /\ (body.grabId \in Particles =>
                \A j \in Particles :
                    /\ ~Lt(GrabDist2(j), GrabDist2(body.grabId))
                    /\ (j < body.grabId => ~Le(GrabDist2(j), GrabDist2(body.grabId))))

\* a grab point with three particles at the same distance
C11_Witness ==
    /\ obs.op = "startGrab"
    /\ body.grabId = 1
    /\ body.numParticles >= 4
    /\ GrabDist2(2) = GrabDist2(1) /\ GrabDist2(3) = GrabDist2(1)
    /\ Lt(GrabDist2(1), GrabDist2(0))

\* C12: after endGrab grabId is -1 and stays -1 until the next startGrab, and
\* a simulate call made meanwhile leaves every position as the collision step
\* left it; moveGrabbed changes the stored target only, whether or not a grab
\* is active.
C12_EndGrabClears ==
    /\ (main.ended => body.grabId = -1)
    /\ (obs.op = "simulate" /\ body.grabId = -1 => body.pos = obs.collided)
    /\ (obs.op = "moveGrabbed" =>
            /\ body = [obs.was EXCEPT !.grabPos = body.grabPos]
            /\ \A k \in 0 .. 2 : body.grabPos[k] = main.target[k])

\* a simulate call after startGrab at the out-of-bounds point and endGrab
C12_Witness ==
    /\ obs.op = "simulate"
    /\ main.ended
    /\ main.target = OutsideTarget
    /\ body.grabPos = OutsideTarget
    /\ body.numElems = 1
    /\ body.pos = obs.collided

\* moveGrabbed reached with no particle grabbed (startGrab found none)
C12_MoveWithoutGrab == obs.op = "moveGrabbed" /\ body.grabId = -1

-----------------------------------------------------------------------------
(* MultiTargetGPUComputationRenderer.js: variables, passes, compute          *)
(* SoftbodyGPU.js: pass registration, simulate, grab                        *)

\* addVariable calls of the two SoftBodyGPU definitions (lines 39-44, 686-695)
Variables(def) ==
    IF def = 1 THEN <<"texturePos", "texturePrevPos", "textureVel", "textureElem">>
    ELSE <<"texturePos", "texturePrevPos", "textureVel", "textureElem",
           "textureDebug1", "textureDebug2", "textureDebug3", "textureDebug4">>

\* addPass calls, in registration order (lines 48-141, 699-986)
Passes(def) ==
    IF def = 1
    THEN <<[name |-> "copyPrevPosPass", variable |-> "texturePrevPos",
            dependencies |-> <<"texturePos">>],
           [name |-> "xpbdIntegratePass", variable |-> "texturePos",
            dependencies |-> <<"textureVel", "texturePos">>],
           [name |-> "solveElemPass", variable |-> "textureElem",
            dependencies |-> <<"texturePos">>],
           [name |-> "collisionPass", variable |-> "texturePos",
            dependencies |-> <<"texturePos", "texturePrevPos">>],
           [name |-> "xpbdVelocityPass", variable |-> "textureVel",
            dependencies |-> <<"texturePos", "texturePrevPos">>]>>
    ELSE <<[name |-> "copyPrevPosPass", variable |-> "texturePrevPos",
            dependencies |-> <<"texturePos">>],
           [name |-> "xpbdIntegratePass", variable |-> "texturePos",
            dependencies |-> <<"textureVel", "texturePos">>],
           [name |-> "solveElemPass", variable |-> "textureElem",
            dependencies |-> <<"texturePos">>],
           [name |-> "copyElems1Pass", variable |-> "textureDebug1",
            dependencies |-> <<"textureElem">>],
           [name |-> "copyElems2Pass", variable |-> "textureDebug2",
            dependencies |-> <<"textureElem">>],
           [name |-> "copyElems3Pass", variable |-> "textureDebug3",
            dependencies |-> <<"textureElem">>],
           [name |-> "copyElems4Pass", variable |-> "textureDebug4",
            dependencies |-> <<"textureElem">>],
           [name |-> "applyElemPass", variable |-> "texturePos",
            dependencies |-> <<"textureElem", "texturePos">>],
           [name |-> "collisionPass", variable |-> "texturePos",
            dependencies |-> <<"texturePos", "texturePrevPos">>],
           [name |-> "xpbdVelocityPass", variable |-> "textureVel",
            dependencies |-> <<"texturePos", "texturePrevPos">>]>>

\* currentTextureIndex === 0 ? 1 : 0
nextTextureIndex(currentTextureIndex) == IF currentTextureIndex = 0 THEN 1 ELSE 0

\* the uniform bindings with prev_<name> bound for the pass's own variable too
bindUniformsOwnPrev(r, pass) ==
    {[uniform |-> pass.dependencies[d], prev |-> FALSE,
      target |-> <<pass.dependencies[d], r.currentTextureIndex[pass.dependencies[d]]>>] :
        d \in DOMAIN pass.dependencies}
    \cup
    {[uniform |-> pass.dependencies[d], prev |-> TRUE,
      target |-> <<pass.dependencies[d],
                   nextTextureIndex(r.currentTextureIndex[pass.dependencies[d]])>>] :
        d \in DOMAIN pass.dependencies}

\* compute, lines 283-297: uniforms[depVar.name] is the current render target
\* of the dependency; uniforms["prev_" + depVar.name] the alternate one, for
\* dependencies other than the pass's own variable.  A render target is
\* <<variable name, index>>.
bindUniforms(r, pass) ==
    {[uniform |-> pass.dependencies[d], prev |-> FALSE,
      target |-> <<pass.dependencies[d], r.currentTextureIndex[pass.dependencies[d]]>>] :
        d \in DOMAIN pass.dependencies}
    \cup
    {[uniform |-> pass.dependencies[d], prev |-> TRUE,
      target |-> <<pass.dependencies[d],
                   nextTextureIndex(r.currentTextureIndex[pass.dependencies[d]])>>] :
        d \in {e \in DOMAIN pass.dependencies : pass.dependencies[e] # pass.variable}}

\* the update of currentTextureIndex applied to every variable
makeCurrentEvery(index, variable, next) ==
    [v \in DOMAIN index |-> nextTextureIndex(index[v])]

\* compute, line 305: pass.variable.currentTextureIndex = nextTextureIndex
makeCurrent(index, variable, next) == [index EXCEPT ![variable] = next]

\* one iteration of compute without the update of currentTextureIndex
computePassNoFlip(r, pass) ==
    LET out == <<pass.variable, nextTextureIndex(r.currentTextureIndex[pass.variable])>>
    IN  [r EXCEPT !.uniforms = bindUniforms(r, pass),
                  !.output = out,
                  !.written = [@ EXCEPT ![out] = r.clock + 1],
                  !.clock = @ + 1]

\* one iteration of the loop of compute (lines 276-305): bind the uniforms,
\* render into the next target of the pass's variable, make it current.
\* written[t] is the time of the last render into target t (0: the initial
\* value rendered by init).
computePass(r, pass) ==
    LET out == <<pass.variable, nextTextureIndex(r.currentTextureIndex[pass.variable])>>
    IN  [r EXCEPT !.uniforms = bindUniforms(r, pass),
                  !.output = out,
                  !.written = [@ EXCEPT ![out] = r.clock + 1],
                  !.clock = @ + 1,
                  !.currentTextureIndex = makeCurrent(@, pass.variable, out[2])]

\* getCurrentRenderTarget(variable), lines 310-314
getCurrentRenderTarget(r, variable) == <<variable, r.currentTextureIndex[variable]>>

\* getAlternateRenderTarget(variable), lines 316-320
getAlternateRenderTarget(r, variable) ==
    <<variable, IF r.currentTextureIndex[variable] = 0 THEN 1 ELSE 0>>

SeqRange(q) == {q[i] : i \in DOMAIN q}

\* init, lines 190-199: two render targets per variable, both holding the
\* initial value; currentTextureIndex 0 (addVariable, line 157)
Renderer(def) ==
    [def |-> def,
     currentTextureIndex |-> [v \in SeqRange(Variables(def)) |-> 0],
     written |-> [t \in SeqRange(Variables(def)) \X {0, 1} |-> 0],
     clock |-> 0,
     uniforms |-> {},
     output |-> <<"none", 0>>]

MaxComputes == 6

\* this.pos of a SoftBodyGPU is the compute variable returned by addVariable,
\* an object without indexed elements: this.pos[k] is undefined
VariableObject == Float32Array(0)

\* SoftBodyGPU.startGrab (first definition, lines 429-441): the loop of
\* SoftBody.startGrab, run on this.pos
startGrabGPU(g, p) ==
    [g EXCEPT !.grabId = nearest([numParticles |-> g.numParticles, pos |-> VariableObject],
                                 p, 0, MAX_VALUE, -1),
              !.grabPos = vecCopy(@, 0, p, 0)]

\* SoftBodyGPU.moveGrabbed / endGrab (first definition, lines 443-448)
moveGrabbedGPU(g, p) == [g EXCEPT !.grabPos = vecCopy(@, 0, p, 0)]
endGrabGPU(g) == [g EXCEPT !.grabId = -1]

\* the second definition has no startGrab, moveGrabbed or endGrab (lines
\* 1240-1259 are comments): the call throws and changes nothing
HasGrabMethods == phase = "gpu1"
NotAFunction == "TypeError"

GpuMeshes == {[vertices |-> UnitTet, tetIds |-> Arr(<<0, 1, 2, 3>>), density |-> One],
              [vertices |-> LiftedTet, tetIds |-> Arr(<<0, 1, 2, 3>>), density |-> One]}

PassNames(def) == [i \in DOMAIN Passes(def) |-> Passes(def)[i].name]

InitGpu ==
    /\ phase \in {"gpu1", "gpu"}
    /\ input \in GpuMeshes
    /\ physicsParams = [DefaultParams EXCEPT !.density = input.density]
    /\ body = NoBody
    /\ gpu = IF phase = "gpu1" THEN SoftBodyGPU1(input.vertices, input.tetIds, physicsParams)
             ELSE SoftBodyGPU(input.vertices, input.tetIds, physicsParams)
    /\ main = [pc |-> 1, calls |-> 0, order |-> << >>,
               renderer |-> Renderer(IF phase = "gpu1" THEN 1 ELSE 2),
               latest |-> [v \in SeqRange(Variables(IF phase = "gpu1" THEN 1 ELSE 2)) |-> 0],
               reads |-> {}, active |-> FALSE, target |-> Float32Array(3),
               error |-> "none"]
    /\ obs = NoObs

\* SoftBodyGPU.simulate -> gpuCompute.compute(): the pass at position main.pc
\* of the loop; position 1 starts a simulate call
GpuComputePass ==
    /\ main.pc \in DOMAIN Passes(main.renderer.def)
    /\ main.pc = 1 => main.calls < MaxComputes
    /\ LET pass == Passes(main.renderer.def)[main.pc]
           last == main.pc = Len(Passes(main.renderer.def))
           r == computePass(main.renderer, pass)
       IN  main' = [main EXCEPT
                      !.renderer = r,
                      !.reads = {[uniform |-> u.uniform, prev |-> u.prev,
                                  written |-> main.renderer.written[u.target],
                                  latest |-> main.latest[u.uniform]] : u \in r.uniforms},
                      !.latest = [@ EXCEPT ![pass.variable] = r.clock],
                      !.order = IF main.pc = 1 THEN <<pass.name>> ELSE Append(@, pass.name),
                      !.calls = IF main.pc = 1 THEN @ + 1 ELSE @,
                      !.pc = IF last THEN 1 ELSE @ + 1]
    /\ obs' = [op |-> "pass"]
    /\ UNCHANGED <<phase, input, physicsParams, body, gpu>>

\* Grabber.start (SoftbodyGPU.js lines 590-606) -> startGrab(hit)
GpuStartGrab ==
    /\ main.pc = 1
    /\ \E p \in GrabPoints :
          IF HasGrabMethods
          THEN /\ gpu' = startGrabGPU(gpu, p)
               /\ main' = [main EXCEPT !.active = TRUE, !.target = p]
          ELSE /\ gpu' = gpu
               /\ main' = [main EXCEPT !.error = NotAFunction, !.target = p]
    /\ obs' = [op |-> "startGrab"]
    /\ UNCHANGED <<phase, input, physicsParams, body>>

\* Grabber.move -> moveGrabbed(hit)
GpuMoveGrabbed ==
    /\ main.pc = 1
    /\ main.active
    /\ \E p \in GrabPoints : /\ gpu' = moveGrabbedGPU(gpu, p)
                              /\ main' = [main EXCEPT !.target = p]
    /\ obs' = [op |-> "moveGrabbed"]
    /\ UNCHANGED <<phase, input, physicsParams, body>>

\* Grabber.end -> endGrab()
GpuEndGrab ==
    /\ main.pc = 1
    /\ main.active
    /\ gpu' = endGrabGPU(gpu)
    /\ main' = [main EXCEPT !.active = FALSE]
    /\ obs' = [op |-> "endGrab"]
    /\ UNCHANGED <<phase, input, physicsParams, body>>

NextGpu ==
    \/ GpuComputePass
    \/ GpuStartGrab
    \/ GpuMoveGrabbed
    \/ GpuEndGrab

SpecGpu == InitGpu /\ [][NextGpu]_vars

\* C13: in every pass of every compute call the render target the pass writes
\* is none of the render targets bound as its inputs (the current target of
\* each dependency, and the alternate target of each dependency other than
\* the pass's own variable).
C13_WriteTargetNotRead ==
    \A u \in main.renderer.uniforms : u.target # main.renderer.output

\* a pass that reads its own variable, after earlier compute calls
C13_Witness ==
    /\ main.calls >= 3
    /\ main.renderer.output[1] = "texturePos"
    /\ \E u \in main.renderer.uniforms : u.uniform = "texturePos" /\ ~u.prev
    /\ \E u \in main.renderer.uniforms : u.prev
    /\ \A u \in main.renderer.uniforms : u.target # main.renderer.output

\* the six passes of a substep
CorePasses ==
    <<"copyPrevPosPass", "xpbdIntegratePass", "solveElemPass", "applyElemPass",
      "collisionPass", "xpbdVelocityPass">>

IsPrefix(p, q) == Len(p) <= Len(q) /\ p = SubSeq(q, 1, Len(p))

\* C14: every simulate call of the second SoftBodyGPU definition runs its
\* passes one after the other in registration order, in which snapshot,
\* integrate, element solve, gather, collision and velocity update follow
\* each other in this order, and every dependency a pass reads is bound to
\* the render target written most recently for that variable.
C14_PassOrderAndFreshReads ==
    /\ IsPrefix(main.order, PassNames(main.renderer.def))
    /\ (main.pc = 1 /\ main.calls > 0 => main.order = PassNames(main.renderer.def))
    /\ (phase = "gpu" =>
            SelectSeq(PassNames(main.renderer.def), LAMBDA n : n \in SeqRange(CorePasses))
                = CorePasses)
    /\ \A rd \in main.reads : ~rd.prev => rd.written = rd.latest

\* the end of a later simulate call of the second definition: the velocity
\* pass has read the positions written by the collision pass of this call
C14_Witness ==
    /\ phase = "gpu"
    /\ main.pc = 1
    /\ main.calls >= 2
    /\ main.order = PassNames(2)
    /\ \E rd \in main.reads :
          /\ rd.uniform = "texturePos" /\ ~rd.prev
          /\ rd.written = rd.latest
          /\ rd.written = main.renderer.clock - 1

GpuParticles == 0 .. gpu.numParticles - 1

\* C15: on a SoftBodyGPU, startGrab at a point near the body starts a grab
\* (raises no error and records a particle of the body as grabbed), so that
\* the substeps that follow can hold that particle at the target.
C15_GpuGrabStarts ==
    obs.op = "startGrab" =>
        /\ main.error = "none"
        /\ gpu.grabId \in GpuParticles
        /\ \A k \in 0 .. 2 : gpu.grabPos[k] = main.target[k]

Corners(e) == {body.tetIds[4 * e + c] : c \in 0 .. 3}
SharedParticles == Corners(0) \cap Corners(1)

-----------------------------------------------------------------------------
(* The kernels applyToElem and the ground collision as functions of their   *)
(* arguments, in both implementations.                                      *)

\* four coplanar corners: rest volume 0, every inverse mass 0
FlatTet == ArrQ(<<0, 1, 0, 1, 1, 0, 0, 2, 0, 1, 2, 0>>)

\* this.accumOne at the call: cleared, or holding the deviatoric correction
AccumOnes == {Float32Array(12), [i \in 0 .. 11 |-> Q(1, 10)]}

KernelBodies ==
    {[SoftBody(v, Arr(<<0, 1, 2, 3>>), DefaultParams) EXCEPT !.accumOne = a] :
         v \in {FlatTet, LiftedTet}, a \in AccumOnes}

\* this.grads with g[1..3] set by solveElem: all zero, or the rest gradients
GradSets == {Float32Array(12), ArrQ(<<0, 0, 0, 1, 0, 0, 0, 1, 0, 0, 0, 1>>)}
ConstraintValues == {Zero, R(-1), One}
Compliances == {Zero, DefaultParams.devCompliance}
KernelDts == {DefaultParams.timeStep, DefaultParams.dt}
Frictions == {Zero, R(100), DefaultParams.friction}

\* a particle after the accumulate step, with its position before the substep
ContactPositions ==
    {[pos |-> Arr(<<x, y, Zero>>), prevPos |-> Arr(<<Zero, Zero, Zero>>)] :
         x \in {Zero, One}, y \in {R(-2), Q(-1, 2), Zero, Q(1, 2)}}

\* new SoftBody on one vertex and no tetrahedra
FreeParticle == SoftBody(ArrQ(<<0, 0, 0>>), Arr(<< >>), DefaultParams)

\* a body of one particle at the given position
particleBody(p) == [FreeParticle EXCEPT !.pos = p.pos, !.prevPos = p.prevPos]

\* the arguments the GLSL kernel gets for element elemNr of body b
cornerPositions(b, elemNr) ==
    [k \in 0 .. 11 |-> b.pos[3 * b.tetIds[4 * elemNr + (k \div 3)] + (k % 3)]]
cornerInvMass(b, elemNr) == [i \in 0 .. 3 |-> b.invMass[b.tetIds[4 * elemNr + i]]]

InitKernel ==
    /\ phase = "kernel"
    /\ input \in [g : GradSets, C : ConstraintValues, compliance : Compliances,
                  addToAccum : BOOLEAN, dt : KernelDts, particle : ContactPositions]
    /\ physicsParams \in {[DefaultParams EXCEPT !.friction = f] : f \in Frictions}
    /\ body \in KernelBodies
    /\ gpu = NoGpu
    /\ main = [pc |-> "ready"]
    /\ obs = NoObs

\* SoftBody.applyToElem(0, C, compliance, dt, addToAccum)
KernelApplyToElem ==
    /\ main.pc = "ready"
    /\ body' = applyToElem(body, input.g, 0, input.C, input.compliance, input.dt,
                           input.addToAccum)
    /\ obs' = [op |-> "applyToElem", was |-> body,
               w |-> genInvMass(body, gradsWithFirst(input.g), 0)]
    /\ main' = [pc |-> "done"]
    /\ UNCHANGED <<phase, input, physicsParams, gpu>>

\* the GLSL applyToElem on the corners of element 0
KernelApplyToElemGLSL ==
    /\ main.pc = "ready"
    /\ obs' = [op |-> "applyToElemGLSL", id |-> cornerPositions(body, 0),
               w |-> genInvMass(body, gradsWithFirst(input.g), 0),
               out |-> applyToElemGLSL(input.C, input.compliance, input.dt,
                                       body.invRestVolume[0], cornerPositions(body, 0),
                                       cornerInvMass(body, 0), input.g)]
    /\ main' = [pc |-> "done"]
    /\ UNCHANGED <<phase, input, physicsParams, body, gpu>>

\* the ground collision of SoftBody.simulate for one particle
KernelCollide ==
    /\ main.pc = "ready"
    /\ obs' = [op |-> "collide",
               out |-> collideOne(particleBody(input.particle), 0, input.dt,
                                  physicsParams).pos]
    /\ main' = [pc |-> "done"]
    /\ UNCHANGED <<phase, input, physicsParams, body, gpu>>

\* the collisionPass shader for one texel
KernelCollideGLSL ==
    /\ main.pc = "ready"
    /\ obs' = [op |-> "collideGLSL",
               out |-> collisionGLSL(input.particle.pos, input.particle.prevPos,
                                     input.dt, physicsParams.friction)]
    /\ main' = [pc |-> "done"]
    /\ UNCHANGED <<phase, input, physicsParams, body, gpu>>

\* one combination of the inputs of applyToElem, for the kernels that do not
\* read them
ElementInputsIdle ==
    /\ input.g = Float32Array(12)
    /\ input.C = Zero
    /\ input.compliance = Zero
    /\ ~input.addToAccum

\* the prediction of one substep in both implementations, for the first
\* substep after construction (fresh: velocity 0, textureVel = vel0) and for
\* a substep that follows another one (the velocity is what the last stage of
\* that substep left: SoftBody's velocity update, the xpbdVelocityPass)
KernelPredict ==
    /\ main.pc = "ready"
    /\ ElementInputsIdle /\ body.pos = LiftedTet /\ body.accumOne = Float32Array(12)
    /\ \E g \in Gravities, fresh \in BOOLEAN :
       \E pb \in {particleBody(input.particle)} :
       \E cpuBody \in {IF fresh THEN [pb EXCEPT !.prevPos = pb.pos]
                       ELSE velocityUpdate(pb, 0, input.dt)} :
       \E cpu \in {predict(cpuBody, 0, input.dt, [physicsParams EXCEPT !.gravity = g])} :
           LET p == input.particle
               velTex == IF fresh THEN createTexture(1, 1)
                         ELSE velocityGLSL(p.pos, p.prevPos, input.dt, g)
           IN  obs' = [op |-> "predict", fresh |-> fresh, gravity |-> g,
                       vel |-> cpuBody.vel,
                       cpu |-> [pos |-> cpu.pos, prevPos |-> cpu.prevPos],
                       gpu |-> [pos |-> integrateGLSL(p.pos, velTex, input.dt),
                                prevPos |-> copyPrevPosGLSL(p.pos)]]
    /\ main' = [pc |-> "done"]
    /\ UNCHANGED <<phase, input, physicsParams, body, gpu>>

\* world boxes the caller may hand to simulate
WorldBoundsSet == {DefaultParams.worldBounds,
                   <<Q(-1, 2), R(-1), Q(-1, 2), Q(1, 2), R(10), Q(1, 2)>>}

\* simulate(dt, physicsParams) on a body constructed with DefaultParams, with
\* arguments that differ from the values at construction; per particle, the
\* stages that use dt, gravity, friction and worldBounds.  SoftBody reads
\* them from the arguments, the passes of SoftBodyGPU from their uniforms and
\* from the constants of the collisionPass shader.
KernelChangedCall ==
    /\ main.pc = "ready"
    /\ ElementInputsIdle /\ body.pos = LiftedTet /\ body.accumOne = Float32Array(12)
    /\ \E g \in Gravities, wb \in WorldBoundsSet :
       \E call \in {[physicsParams EXCEPT !.gravity = g, !.worldBounds = wb]} :
       \E pb \in {particleBody(input.particle)} :
       \E vel \in {vecSetDiff(Float32Array(3), 0, pb.pos, 0, pb.prevPos, 0, One)} :
       \E cpuPred \in {predict([pb EXCEPT !.vel = vel], 0, input.dt, call)} :
           LET p == input.particle
               u == Uniforms(DefaultParams)
               gpuPrev == copyPrevPosGLSL(p.pos)
               gpuPred == integrateGLSL(p.pos, vel, u.dt)
               gpuOut == collisionGLSL(gpuPred, gpuPrev, u.dt, u.friction)
           IN  obs' = [op |-> "changedCall", call |-> call, vel |-> vel,
                       cpu |-> [pred |-> cpuPred.pos,
                                out |-> collideOne(cpuPred, 0, input.dt, call).pos],
                       gpu |-> [pred |-> gpuPred, out |-> gpuOut,
                                vel |-> velocityGLSL(gpuOut, gpuPrev, u.dt, u.gravity)]]
    /\ main' = [pc |-> "done"]
    /\ UNCHANGED <<phase, input, physicsParams, body, gpu>>

\* a world box of no width in x and z: clamping puts every particle on the
\* y axis
ThinBox == <<Zero, Zero, Zero, Zero, R(10), Zero>>

\* SoftBody.solveElem(0, dt) after the accumulators were cleared, on the body
\* as constructed or with its particles clamped onto a line
KernelSolveElem ==
    /\ main.pc = "ready"
    /\ ElementInputsIdle
    /\ input.particle.pos = Float32Array(3)
    /\ physicsParams = DefaultParams
    /\ input.dt = DefaultParams.timeStep
    /\ \E onLine \in BOOLEAN :
       \E thin \in {[physicsParams EXCEPT !.worldBounds = ThinBox]} :
       \E b0 \in {clearAccum(IF onLine THEN collide(body, 0, input.dt, thin) ELSE body)} :
               /\ body' = solveElem(b0, 0, input.dt, DefaultParams)
               /\ obs' = [op |-> "solveElem", was |-> b0,
                          dev |-> solveElemDev(b0, 0, input.dt, DefaultParams).accumOne]
    /\ main' = [pc |-> "done"]
    /\ UNCHANGED <<phase, input, physicsParams, gpu>>

NextKernel ==
    \/ KernelApplyToElem
    \/ KernelApplyToElemGLSL
    \/ KernelCollide
    \/ KernelCollideGLSL
    \/ KernelSolveElem

SpecKernel == InitKernel /\ [][NextKernel]_vars

\* the per-particle stages of a substep in both implementations
NextStages ==
    \/ KernelPredict
    \/ KernelChangedCall

SpecStages == InitKernel /\ [][NextStages]_vars

-----------------------------------------------------------------------------
(* Claims about the kernels                                                 *)

\* C18: when the generalized inverse mass w of the constraint instance is 0,
\* applyToElem changes no particle position, no accumOne, no accum and no
\* accumWeight (CPU), and leaves the corner positions as they were (GLSL).
C18_ZeroWeightNoOp ==
    /\ obs.op = "applyToElem" /\ obs.w = Zero =>
           /\ body.pos = obs.was.pos
           /\ body.accumOne = obs.was.accumOne
           /\ body.accum = obs.was.accum
           /\ body.accumWeight = obs.was.accumWeight
    /\ obs.op = "applyToElemGLSL" /\ obs.w = Zero => obs.out = obs.id

C18_Witness ==
    /\ obs.op = "applyToElem" /\ obs.w = Zero
    /\ input.C # Zero /\ input.addToAccum
    /\ input.g # Float32Array(12)
    /\ body.accumOne # Float32Array(12)

\* the particle of the call clamped to the world bounds
ClampedContact ==
    vecSetClamped(input.particle.pos, 0, BoundsArray(physicsParams), 0,
                  BoundsArray(physicsParams), 1)
FrictionScale == MathMin(One, Mul(input.dt, physicsParams.friction))

\* C19: the ground collision (CPU and GLSL) treats every particle whose
\* clamped y is <= 0, exactly 0 included, as in contact: y becomes 0 and x and
\* z move toward the previous position by (previous - current) *
\* min(1, dt * friction).
C19_ContactAtOrBelowFloor ==
    obs.op \in {"collide", "collideGLSL"} /\ Le(ClampedContact[1], Zero) =>
        /\ obs.out[1] = Zero
        /\ \A k \in {0, 2} :
               obs.out[k] = Add(ClampedContact[k],
                                Mul(Sub(input.particle.prevPos[k], ClampedContact[k]),
                                    FrictionScale))

\* C20 (as stated): a particle whose inverse mass is 0 and that is not grabbed
\* keeps its initial position over any sequence of simulate calls with
\* non-zero gravity.
C20_ZeroInvMassImmovable ==
    main.simulated /\ physicsParams.gravity # Zero =>
        \A i \in Particles :
            body.invMass[i] = Zero /\ ~main.disturbed =>
                \A k \in 0 .. 2 : body.pos[3 * i + k] = input.vertices[3 * i + k]

RestState(b) ==
    [tetIds |-> b.tetIds, invMass |-> b.invMass, invRestPose |-> b.invRestPose,
     invRestVolume |-> b.invRestVolume, numParticles |-> b.numParticles,
     numElems |-> b.numElems]

\* C21: after any sequence of simulate, endFrame, startGrab, moveGrabbed and
\* endGrab calls, tetIds, invMass, invRestPose, invRestVolume, numParticles
\* and numElems are what the constructor computed.
C21_RestStateImmutable ==
    RestState(body) = RestState(SoftBody(input.vertices, input.tetIds, physicsParams))

C21_Witness ==
    /\ main.simulated /\ main.disturbed /\ main.ended
    /\ obs.op = "endGrab"
    /\ body.numElems > 0
    /\ body.pos # input.vertices

\* C22: on every substep, the first after construction included, both
\* implementations predict position + (velocity + gravity * dt) * dt and
\* take the position before the prediction as previous position.
C22_SamePrediction ==
    obs.op = "predict" =>
        /\ obs.cpu.prevPos = input.particle.pos
        /\ obs.gpu.prevPos = input.particle.pos
        /\ \A k \in 0 .. 2 :
               LET a == Mul(IF k = 1 THEN obs.gravity ELSE Zero, input.dt)
                   want == Add(input.particle.pos[k], Mul(Add(obs.vel[k], a), input.dt))
               IN  obs.cpu.pos[k] = want /\ obs.gpu.pos[k] = want

\* the ground collision with the given box, dt and friction: clamp, and below
\* the floor y = 0 with x and z moved toward prev by min(1, dt * friction)
ContactRule(pos, prev, wb, dt, friction) ==
    LET c == [k \in 0 .. 2 |-> MathMax(wb[k + 1], MathMin(wb[k + 4], pos[k]))]
        s == MathMin(One, Mul(dt, friction))
    IN  IF Lt(c[1], Zero)
        THEN [k \in 0 .. 2 |-> IF k = 1 THEN Zero
                               ELSE Add(c[k], Mul(Sub(prev[k], c[k]), s))]
        ELSE c

\* C23: a simulate(dt, physicsParams) call integrates with the dt and gravity
\* and clamps with the worldBounds and friction of its arguments, in both
\* implementations, also when they differ from the values at construction.
C23_CallArgumentsUsed ==
    obs.op = "changedCall" =>
        LET pos == input.particle.pos
            dt == input.dt
            gdt(k) == Mul(IF k = 1 THEN obs.call.gravity ELSE Zero, dt)
        IN  /\ \A k \in 0 .. 2 :
                   /\ obs.cpu.pred[k] = Add(pos[k], Mul(Add(obs.vel[k], gdt(k)), dt))
                   /\ obs.gpu.pred[k] = Add(pos[k], Mul(obs.vel[k], dt))
            /\ obs.cpu.out = ContactRule(obs.cpu.pred, pos, obs.call.worldBounds, dt,
                                         obs.call.friction)
            /\ obs.gpu.out = ContactRule(obs.gpu.pred, pos, obs.call.worldBounds, dt,
                                         obs.call.friction)
            /\ \A k \in 0 .. 2 :
                   obs.gpu.vel[k] = Add(Div(Sub(obs.gpu.out[k], pos[k]), dt), gdt(k))

\* the sum of the inverse rest volumes of the elements of the incidences S
RECURSIVE SumInvRestVolume(_)
SumInvRestVolume(S) ==
    IF S = {} THEN Zero
    ELSE LET s == CHOOSE x \in S : TRUE
         IN  Add(Rd(gpu.invRestVolume, 4 * (s \div 4)), SumInvRestVolume(S \ {s}))

\* C24: for every particle the total weight of the gather pass (the w the sum
\* of contributions is divided by) is the sum of the inverse rest volumes of
\* the elements touching the particle.
C24_GatherWeightIsInvVolume ==
    phase = "gpu" =>
        \A p \in 0 .. gpu.numParticles - 1 :
            HasTexel(p) =>
                gatherWeight(GatherOf(p), Zero) = SumInvRestVolume(Incidences(p))

-----------------------------------------------------------------------------
(* Softbody.js: Grabber, driven by the pointer events of the container      *)

\* what the ray of a pointerdown meets first: nothing, a mesh whose userData
\* is no SoftBody, or the soft body at a point
Null == "null"
RayResults == {[object |-> "none"], [object |-> "other"]}
                  \cup {[object |-> "SoftBody", hit |-> p] : p \in GrabPoints}

GrabberMeshes == {LiftedTet, UnitTet, TwoTets}

\* new Grabber(...), lines 446-458; OrbitControls start enabled
InitGrabber ==
    /\ phase = "grabber"
    /\ input \in {[vertices |-> v, tetIds |-> Arr(<<0, 1, 2, 3>>),
                   density |-> DefaultParams.density] : v \in GrabberMeshes}
    /\ physicsParams = DefaultParams
    /\ body = SoftBody(input.vertices, input.tetIds, physicsParams)
    /\ gpu = NoGpu
    /\ main = [active |-> FALSE, physicsObject |-> Null, controlsEnabled |-> TRUE,
               mouseDown |-> FALSE, started |-> FALSE]
    /\ obs = NoObs

\* start(x, y), lines 471-486, for the ray result r
start(m, b, r) ==
    IF r.object = "SoftBody"
    THEN [grabber |-> [m EXCEPT !.physicsObject = "body", !.active = TRUE,
                                !.controlsEnabled = FALSE, !.started = TRUE],
          body |-> startGrab(b, r.hit)]
    ELSE [grabber |-> [m EXCEPT !.physicsObject = Null], body |-> b]

\* move(x, y), lines 488-495, with the point p on the ray
move(m, b, p) ==
    IF m.active /\ m.physicsObject # Null THEN moveGrabbed(b, p) ELSE b

\* end(evt), lines 497-507
end(m, b) ==
    IF m.active
    THEN [grabber |-> [m EXCEPT !.physicsObject = Null, !.active = FALSE,
                                !.controlsEnabled = TRUE],
          body |-> IF m.physicsObject # Null THEN endGrab(b) ELSE b]
    ELSE [grabber |-> m, body |-> b]

\* onPointer, lines 511-513: pointerdown
PointerDown ==
    /\ \E r \in RayResults :
           LET s == start(main, body, r)
           IN  /\ main' = [s.grabber EXCEPT !.mouseDown = TRUE]
               /\ body' = s.body
               /\ obs' = [op |-> "pointerdown", ray |-> r]
    /\ UNCHANGED <<phase, input, physicsParams, gpu>>

\* onPointer, lines 514-516: pointermove
PointerMove ==
    /\ \E p \in GrabPoints :
           /\ body' = IF main.mouseDown /\ main.active THEN move(main, body, p) ELSE body
           /\ obs' = [op |-> "pointermove", point |-> p]
    /\ UNCHANGED <<phase, input, physicsParams, gpu, main>>

\* onPointer, lines 517-521: pointerup
PointerUp ==
    /\ LET s == end([main EXCEPT !.controlsEnabled = TRUE], body)
       IN  /\ main' = [s.grabber EXCEPT !.mouseDown = FALSE]
           /\ body' = s.body
    /\ obs' = [op |-> "pointerup"]
    /\ UNCHANGED <<phase, input, physicsParams, gpu>>

\* onPointer: pointerout matches no branch (line 517: the test is commented
\* out)
PointerOut ==
    /\ obs' = [op |-> "pointerout"]
    /\ UNCHANGED <<phase, input, physicsParams, body, gpu, main>>

NextGrabber ==
    \/ PointerDown
    \/ PointerMove
    \/ PointerUp
    \/ PointerOut

SpecGrabber == InitGrabber /\ [][NextGrabber]_vars

\* C25: after a pointerup event has been handled, no soft body on which the
\* Grabber called startGrab still has grabId >= 0.
C25_PointerUpReleases ==
    phase = "grabber" /\ obs.op = "pointerup" /\ main.started => body.grabId < 0

\* C26: whenever active is true, physicsObject is non-null and the camera
\* controls are disabled; whenever active is false, physicsObject is null and
\* the controls are enabled.
C26_GrabberFlags ==
    phase = "grabber" =>
        /\ main.active => main.physicsObject # Null /\ ~main.controlsEnabled
        /\ ~main.active => main.physicsObject = Null /\ main.controlsEnabled

\* C27: when the deviatoric part of solveElem produced a non-zero correction,
\* the correction of the element is added to accum for its four corners and
\* counted in accumWeight, also when the volume part is skipped.
C27_DeviatoricReachesAccum ==
    obs.op = "solveElem" /\ obs.dev # Float32Array(12) =>
        \A i \in 0 .. 3 :
            LET id == body.tetIds[i]
            IN  /\ body.accumWeight[id] = Add(obs.was.accumWeight[id], One)
                /\ \A k \in 0 .. 2 :
                       body.accum[3 * id + k] =
                           Add(obs.was.accum[3 * id + k], body.accumOne[3 * i + k])

\* C28: one simulate call gives the same positions and velocities when the
\* elements of the mesh are listed in another order (here: reversed, with
\* the rest data the constructor computes for that order).
C28_ElementOrderIrrelevant ==
    obs.op = "simulate" =>
        /\ obs.reversed.pos = body.pos
        /\ obs.reversed.vel = body.vel

\* a mesh of two elements was stepped, its elements were listed in two
\* different orders and the step moved particles
C28_Witness ==
    /\ obs.op = "simulate"
    /\ body.numElems = 2
    /\ reversedElems(body).tetIds # body.tetIds
    /\ body.pos # obs.pre.pos
    /\ \A i \in DOMAIN body.pos : body.pos[i][2] # 0

\* C29: after new SoftBodyGPU(...) the square buffers of side texDim hold a
\* texel for every particle and for every element, and the position of every
\* particle was written into the position buffer.
C29_BufferCapacity ==
    phase = "gpu" =>
        /\ gpu.texDim * gpu.texDim >= gpu.numParticles
        /\ gpu.texDim * gpu.texDim >= gpu.numElems
        /\ \A p \in 0 .. gpu.numParticles - 1 :
               /\ 4 * p + 3 \in DOMAIN gpu.pos0
               /\ \A k \in 0 .. 2 : gpu.pos0[4 * p + k] = input.vertices[3 * p + k]

\* after the passes run so far, the current render target of every variable
\* is the one written by the latest pass targeting the variable (the initial
\* target 0 if there was none), and the alternate target is the other one,
\* written earlier
CurrentIsLatestWritten ==
    \A v \in DOMAIN main.renderer.currentTextureIndex :
        LET cur == getCurrentRenderTarget(main.renderer, v)
            alt == getAlternateRenderTarget(main.renderer, v)
        IN  /\ cur[1] = v /\ alt[1] = v /\ {cur[2], alt[2]} = {0, 1}
            /\ main.renderer.written[cur] = main.latest[v]
            /\ IF main.latest[v] = 0
               THEN cur[2] = 0 /\ main.renderer.written[alt] = 0
               ELSE main.renderer.written[alt] < main.latest[v]

\* a pass of compute changes the index of its own variable, from 0 to 1 or
\* from 1 to 0, and of no other variable; no other step changes an index
OnlyOwnIndexFlips ==
    IF main'.renderer.clock # main.renderer.clock
    THEN \A v \in DOMAIN main.renderer.currentTextureIndex :
             main'.renderer.currentTextureIndex[v] =
                 IF v = Passes(main.renderer.def)[main.pc].variable
                 THEN 1 - main.renderer.currentTextureIndex[v]
                 ELSE main.renderer.currentTextureIndex[v]
    ELSE main'.renderer.currentTextureIndex = main.renderer.currentTextureIndex

\* C30: every pass of compute flips the currentTextureIndex of exactly its
\* own variable; after any number of passes getCurrentRenderTarget(v) is the
\* render target written by the most recent pass targeting v (the initial
\* one if none ran) and getAlternateRenderTarget(v) is the other one.
C30_OwnIndexFlipsOnly ==
    (phase \in {"gpu1", "gpu"} => []CurrentIsLatestWritten) /\ [][OnlyOwnIndexFlips]_vars

\* after three compute calls: the positions were written three times per
\* call, the velocities once per call, and index 1 is current for both
C30_Witness ==
    /\ phase = "gpu"
    /\ main.calls = 3
    /\ main.pc = 1
    /\ main.renderer.currentTextureIndex["texturePos"] = 1
    /\ main.renderer.currentTextureIndex["textureVel"] = 1
    /\ main.renderer.written[getCurrentRenderTarget(main.renderer, "texturePos")]
           = main.renderer.clock - 1
    /\ main.renderer.written[getCurrentRenderTarget(main.renderer, "textureVel")]
           = main.renderer.clock

====
